---- MODULE Spec2Model ----
(***************************************************************************)
(* Model of the statistics derivation engine of minerva                    *)
(* (src/analytics/advanced_stats.py): the formula library and the two      *)
(* aggregators calculate_all_player_stats and calculate_all_team_stats.    *)
(*                                                                         *)
(* Numbers.  Python ints and floats are modelled as exact rationals        *)
(* <<n, d>> in lowest terms with d > 0; the literal 0.44 is 11/25 and 0.5  *)
(* is 1/2.  Python's None is the empty tuple <<>>.  A division by zero,    *)
(* which raises ZeroDivisionError in Python, yields the marker <<1, 0>>,   *)
(* which every arithmetic operator propagates; a call one of whose values  *)
(* is the marker ends with the exception instead of a return value.        *)
(*                                                                         *)
(* Objects.  Where the identity of a record or of a returned mapping       *)
(* matters, the objects live in heap, a sequence indexed by address, and   *)
(* results lists the calls made on them by address (specification          *)
(* ObjSpec).  Spec passes records by value and leaves the heap empty.      *)
(*                                                                         *)
(* Concurrency.  ParSpec runs several calls of calculate_all_player_stats  *)
(* at once, each a sequence of steps, one per block of the method; calls   *)
(* holds, per call, its position, its record and its local stats.          *)
(*                                                                         *)
(* Ingestion.  EspnSpec runs ESPNStatsIngestion and PlayerIDMapper         *)
(* (src/ingest/espn_stats.py, player_mapping.py) against the store, and    *)
(* OddsSpec runs OddsAPIIngestion.ingest_game_odds                         *)
(* (src/ingest/odds_api.py); each call is one step, and the session it     *)
(* works in is local to it.                                                *)
(***************************************************************************)
EXTENDS Integers, Sequences, FiniteSets, TLC

VARIABLES pc, fn, args, ret, heap, results, calls, db, cache, last, ncalls,
          odds, offered, noddscalls

vars ==
  <<pc, fn, args, ret, heap, results, calls, db, cache, last, ncalls,
    odds, offered, noddscalls>>

\* The variables of each specification, and what each leaves alone.
engineVars == <<pc, fn, args, ret>>

objVars == <<heap, results>>

parVars == <<calls>>

espnVars == <<db, cache, last, ncalls>>

oddsVars == <<odds, offered, noddscalls>>

notEngine == <<objVars, parVars, espnVars, oddsVars>>

notObj == <<engineVars, parVars, espnVars, oddsVars>>

notPar == <<engineVars, objVars, espnVars, oddsVars>>

notEspn == <<engineVars, objVars, parVars, oddsVars>>

notOdds == <<engineVars, objVars, parVars, espnVars>>

(***************************************************************************)
(* Rational arithmetic                                                     *)
(***************************************************************************)
None == <<>>

ZeroDivisionError == <<1, 0>>

\* An arithmetic operator applied to None raises TypeError: the marker <<2, 0>>.
TypeError == <<2, 0>>

Abs(n) == IF n < 0 THEN -n ELSE n

RECURSIVE GCD(_, _)
GCD(a, b) == IF b = 0 THEN a ELSE GCD(b, a % b)

Norm(n, d) ==
  IF d = 0 THEN ZeroDivisionError
  ELSE LET g == GCD(Abs(n), Abs(d))
           s == IF d < 0 THEN -1 ELSE 1
       IN  <<(s * n) \div g, (s * d) \div g>>

R(n) == <<n, 1>>

IsErr(a) == a[2] = 0

\* The exception a binary operator raises on its operands, or None: an
\* operand whose evaluation already raised wins, then a None operand.
OperandError(a, b) ==
  IF a # None /\ IsErr(a) THEN a
  ELSE IF b # None /\ IsErr(b) THEN b
  ELSE IF a = None \/ b = None THEN TypeError
  ELSE None

\* Sums over the least common denominator and products with cross-cancelled
\* factors: the same rationals, with intermediate values kept small.
Add(a, b) == IF OperandError(a, b) # None THEN OperandError(a, b)
             ELSE LET g == GCD(a[2], b[2])
                  IN  Norm(a[1] * (b[2] \div g) + b[1] * (a[2] \div g),
                           (a[2] \div g) * b[2])

Neg(a) == IF OperandError(a, a) # None THEN OperandError(a, a)
          ELSE <<-a[1], a[2]>>

Sub(a, b) == Add(a, Neg(b))

Mul(a, b) == IF OperandError(a, b) # None THEN OperandError(a, b)
             ELSE LET g1 == GCD(Abs(a[1]), b[2])
                      g2 == GCD(Abs(b[1]), a[2])
                  IN  Norm((a[1] \div g1) * (b[1] \div g2),
                           (a[2] \div g2) * (b[2] \div g1))

\* Python's a / b: raises ZeroDivisionError when b == 0.
Div(a, b) == IF OperandError(a, b) # None THEN OperandError(a, b)
             ELSE IF b[1] = 0 THEN ZeroDivisionError
             ELSE Mul(a, IF b[1] < 0 THEN <<-b[2], -b[1]>> ELSE <<b[2], b[1]>>)

IsZero(a) == a[1] = 0 /\ a[2] # 0

Positive(a) == a[1] > 0 /\ a[2] # 0

LeqZero(a) == a[1] <= 0 /\ a[2] # 0

\* Python's int(x) on a float: truncation toward zero.
PyInt(a) == IF a[1] >= 0 THEN R(a[1] \div a[2]) ELSE R(-((-a[1]) \div a[2]))

\* Python truthiness of an Optional number: None and 0 are falsy.
Truthy(x) == x # None /\ x[1] # 0

\* Python's all([...]) over a list of Optional numbers.
All(xs) == \A i \in DOMAIN xs : Truthy(xs[i])

\* Python's "x or 0".
OrZero(x) == IF Truthy(x) THEN x ELSE R(0)

\* The float literals of the formulas.
F044 == <<11, 25>>

F05 == <<1, 2>>

(***************************************************************************)
(* Formula library (AdvancedStatsCalculator static methods)                *)
(***************************************************************************)
true_shooting_percentage(points, fga, fta) ==
  LET denominator == Mul(R(2), Add(fga, Mul(F044, fta)))
  IN  IF IsZero(denominator) THEN None ELSE Div(points, denominator)

\* effective_field_goal_percentage with the three-pointer bonus subtracted.
effective_field_goal_percentage_minus(fgm, three_pm, fga) ==
  IF IsZero(fga) THEN None ELSE Div(Sub(fgm, Mul(F05, three_pm)), fga)

effective_field_goal_percentage(fgm, three_pm, fga) ==
  IF IsZero(fga) THEN None ELSE Div(Add(fgm, Mul(F05, three_pm)), fga)

usage_percentage(fga, fta, tov, mp, team_fga, team_fta, team_tov, team_mp) ==
  IF IsZero(mp) THEN None
  ELSE LET player_possessions == Add(Add(fga, Mul(F044, fta)), tov)
           team_possessions == Add(Add(team_fga, Mul(F044, team_fta)), team_tov)
       IN  IF IsZero(team_possessions) THEN None
           ELSE Div(Mul(R(100), Mul(player_possessions, Div(team_mp, R(5)))),
                    Mul(mp, team_possessions))

\* assist_percentage that gives up only when the teammates made exactly
\* no field goal.
assist_percentage_zero_only(ast, mp, team_fgm, team_mp, player_fgm) ==
  IF IsZero(mp) \/ IsZero(team_mp) THEN None
  ELSE LET teammate_fgm == Sub(Mul(Div(mp, Div(team_mp, R(5))), team_fgm), player_fgm)
       IN  IF IsZero(teammate_fgm) THEN None
           ELSE Div(Mul(R(100), ast), teammate_fgm)

assist_percentage(ast, mp, team_fgm, team_mp, player_fgm) ==
  IF IsZero(mp) \/ IsZero(team_mp) THEN None
  ELSE LET teammate_fgm == Sub(Mul(Div(mp, Div(team_mp, R(5))), team_fgm), player_fgm)
       IN  IF LeqZero(teammate_fgm) THEN None
           ELSE Div(Mul(R(100), ast), teammate_fgm)

rebound_percentage(reb, mp, team_reb, opponent_reb, team_mp) ==
  IF IsZero(mp) THEN None
  ELSE LET available_rebounds == Add(team_reb, opponent_reb)
       IN  IF IsZero(available_rebounds) THEN None
           ELSE Div(Mul(R(100), Mul(reb, Div(team_mp, R(5)))),
                    Mul(mp, available_rebounds))

offensive_rebound_percentage(oreb, mp, team_oreb, opponent_dreb, team_mp) ==
  IF IsZero(mp) THEN None
  ELSE LET available_oreb == Add(team_oreb, opponent_dreb)
       IN  IF IsZero(available_oreb) THEN None
           ELSE Div(Mul(R(100), Mul(oreb, Div(team_mp, R(5)))),
                    Mul(mp, available_oreb))

defensive_rebound_percentage(dreb, mp, team_dreb, opponent_oreb, team_mp) ==
  IF IsZero(mp) THEN None
  ELSE LET available_dreb == Add(team_dreb, opponent_oreb)
       IN  IF IsZero(available_dreb) THEN None
           ELSE Div(Mul(R(100), Mul(dreb, Div(team_mp, R(5)))),
                    Mul(mp, available_dreb))

turnover_percentage(fga, fta, tov) ==
  LET possessions == Add(Add(fga, Mul(F044, fta)), tov)
  IN  IF IsZero(possessions) THEN None
      ELSE Div(Mul(R(100), tov), possessions)

steal_percentage(stl, mp, opponent_possessions, team_mp) ==
  IF IsZero(mp) \/ IsZero(team_mp) THEN None
  ELSE LET player_share == Div(mp, Div(team_mp, R(5)))
           player_opponent_possessions == Mul(player_share, opponent_possessions)
       IN  IF IsZero(player_opponent_possessions) THEN None
           ELSE Div(Mul(R(100), stl), player_opponent_possessions)

block_percentage(blk, mp, opponent_fga, opponent_three_pa, team_mp) ==
  IF IsZero(mp) \/ IsZero(team_mp) THEN None
  ELSE LET player_share == Div(mp, Div(team_mp, R(5)))
           opponent_two_point_attempts == Sub(opponent_fga, opponent_three_pa)
           player_opponent_2pa == Mul(player_share, opponent_two_point_attempts)
       IN  IF IsZero(player_opponent_2pa) THEN None
           ELSE Div(Mul(R(100), blk), player_opponent_2pa)

free_throw_rate(fta, fga) ==
  IF IsZero(fga) THEN None ELSE Div(fta, fga)

\* points_per_possession with the turnovers left out of the possession sum.
points_per_possession_no_tov(points, fga, fta, tov) ==
  LET possessions == Add(fga, Mul(F044, fta))
  IN  IF IsZero(possessions) THEN None ELSE Div(points, possessions)

points_per_possession(points, fga, fta, tov) ==
  LET possessions == Add(Add(fga, Mul(F044, fta)), tov)
  IN  IF IsZero(possessions) THEN None ELSE Div(points, possessions)

\* estimate_possessions with the offensive rebounds added.
estimate_possessions_plus_oreb(fga, fta, oreb, tov) ==
  Add(Add(Add(fga, Mul(F044, fta)), oreb), tov)

estimate_possessions(fga, fta, oreb, tov) ==
  Add(Sub(Add(fga, Mul(F044, fta)), oreb), tov)

\* pace over a fifth of the minutes, without halving for the two teams.
pace_no_half(team_possessions, opponent_possessions, mp) ==
  IF IsZero(mp) THEN None
  ELSE Mul(R(48), Div(Add(team_possessions, opponent_possessions),
                      Div(mp, R(5))))

pace(team_possessions, opponent_possessions, mp) ==
  IF IsZero(mp) THEN None
  ELSE Mul(R(48), Div(Add(team_possessions, opponent_possessions),
                      Mul(R(2), Div(mp, R(5)))))

\* weights defaults to (0.40, 0.25, 0.20, 0.15).
DefaultWeights == << <<2, 5>>, <<1, 4>>, <<1, 5>>, <<3, 20>> >>

\* four_factors with the percentages taken as they come, not over 100.
four_factors_unscaled(efg_pct, tov_pct, orb_pct, ftr, weights) ==
  LET tov_factor == IF Truthy(tov_pct) THEN Sub(R(1), tov_pct) ELSE R(0)
      orb_factor == IF Truthy(orb_pct) THEN orb_pct ELSE R(0)
  IN  Add(Add(Add(Mul(weights[1], efg_pct),
                  Mul(weights[2], tov_factor)),
              Mul(weights[3], orb_factor)),
          Mul(weights[4], ftr))

four_factors(efg_pct, tov_pct, orb_pct, ftr, weights) ==
  LET tov_factor == IF Truthy(tov_pct) THEN Sub(R(1), Div(tov_pct, R(100))) ELSE R(0)
      orb_factor == IF Truthy(orb_pct) THEN Div(orb_pct, R(100)) ELSE R(0)
  IN  Add(Add(Add(Mul(weights[1], efg_pct),
                  Mul(weights[2], tov_factor)),
              Mul(weights[3], orb_factor)),
          Mul(weights[4], ftr))

(***************************************************************************)
(* The stats mapping the aggregators build: stats = {} and stats[k] = v    *)
(***************************************************************************)
EmptyStats == [k \in {} |-> None]

Put(stats, k, v) == [x \in DOMAIN stats \cup {k} |-> IF x = k THEN v ELSE stats[x]]

\* What a call yields: the value it returns, or the exception it raises.
Returned(v) == [exc |-> "none", value |-> v]

Raised(e) == [exc |-> e, value |-> None]

ExcName(v) == IF v = TypeError THEN "TypeError" ELSE "ZeroDivisionError"

Raises(v) == v # None /\ IsErr(v)

\* A formula returns its value unless an operator in it raised.
Result(v) == IF Raises(v) THEN Raised(ExcName(v)) ELSE Returned(v)

\* An aggregator returns its mapping unless an operator in it raised.
Outcome(stats) ==
  IF \E k \in DOMAIN stats : Raises(stats[k])
  THEN Raised(ExcName(stats[CHOOSE k \in DOMAIN stats : Raises(stats[k])]))
  ELSE Returned(stats)

(***************************************************************************)
(* calculate_all_player_stats, block by block                              *)
(***************************************************************************)
PlayerShooting(stats, b) ==
  LET s1 == Put(stats, "ts_pct",
                true_shooting_percentage(b.points, b.field_goals_attempted,
                                         b.free_throws_attempted))
      s2 == Put(s1, "efg_pct",
                effective_field_goal_percentage(b.field_goals_made,
                                                b.three_pointers_made,
                                                b.field_goals_attempted))
      s3 == Put(s2, "ftr",
                free_throw_rate(b.free_throws_attempted, b.field_goals_attempted))
  IN  Put(s3, "ppp",
          points_per_possession(b.points, b.field_goals_attempted,
                                b.free_throws_attempted, b.turnovers))

PlayerUsage(stats, b) ==
  IF All(<<b.team_field_goals_attempted, b.team_free_throws_attempted,
           b.team_turnovers>>)
  THEN Put(stats, "usg_pct",
           usage_percentage(b.field_goals_attempted, b.free_throws_attempted,
                            b.turnovers, b.minutes_played,
                            b.team_field_goals_attempted,
                            b.team_free_throws_attempted,
                            b.team_turnovers, b.team_minutes))
  ELSE Put(stats, "usg_pct", None)

\* PlayerTurnover computed only when the team usage totals are supplied.
PlayerTurnover_needs_team(stats, b) ==
  IF All(<<b.team_field_goals_attempted, b.team_free_throws_attempted,
           b.team_turnovers>>)
  THEN Put(stats, "tov_pct",
           turnover_percentage(b.field_goals_attempted, b.free_throws_attempted,
                               b.turnovers))
  ELSE Put(stats, "tov_pct", None)

PlayerTurnover(stats, b) ==
  Put(stats, "tov_pct",
      turnover_percentage(b.field_goals_attempted, b.free_throws_attempted,
                          b.turnovers))

\* PlayerPlaymaking that also asks for the team's assists.
PlayerPlaymaking_needs_team_assists(stats, b) ==
  IF All(<<b.team_field_goals_made, b.team_minutes, b.team_assists>>)
  THEN Put(stats, "ast_pct",
           assist_percentage(b.assists, b.minutes_played, b.team_field_goals_made,
                             b.team_minutes, b.field_goals_made))
  ELSE Put(stats, "ast_pct", None)

PlayerPlaymaking(stats, b) ==
  IF All(<<b.team_field_goals_made, b.team_minutes>>)
  THEN Put(stats, "ast_pct",
           assist_percentage(b.assists, b.minutes_played, b.team_field_goals_made,
                             b.team_minutes, b.field_goals_made))
  ELSE Put(stats, "ast_pct", None)

PlayerRebounding(stats, b) ==
  LET s1 == IF All(<<b.team_rebounds, b.opponent_rebounds>>)
            THEN Put(stats, "reb_pct",
                     rebound_percentage(b.rebounds, b.minutes_played,
                                        b.team_rebounds, b.opponent_rebounds,
                                        b.team_minutes))
            ELSE Put(stats, "reb_pct", None)
      s2 == IF All(<<b.team_offensive_rebounds, b.opponent_defensive_rebounds>>)
            THEN Put(s1, "oreb_pct",
                     offensive_rebound_percentage(b.offensive_rebounds,
                                                  b.minutes_played,
                                                  b.team_offensive_rebounds,
                                                  b.opponent_defensive_rebounds,
                                                  b.team_minutes))
            ELSE Put(s1, "oreb_pct", None)
  IN  IF All(<<b.team_defensive_rebounds, b.opponent_offensive_rebounds>>)
      THEN Put(s2, "dreb_pct",
               defensive_rebound_percentage(b.defensive_rebounds, b.minutes_played,
                                            b.team_defensive_rebounds,
                                            b.opponent_offensive_rebounds,
                                            b.team_minutes))
      ELSE Put(s2, "dreb_pct", None)

\* PlayerDefense without the inner else branch: blk_pct is not assigned when
\* the opponent's three-point attempts are missing.
PlayerDefense_no_inner_else(stats, b) ==
  IF Truthy(b.opponent_field_goals_attempted)
  THEN LET opponent_possessions ==
             estimate_possessions(b.opponent_field_goals_attempted, R(0),
                                  OrZero(b.opponent_offensive_rebounds), R(0))
           s1 == Put(stats, "stl_pct",
                     steal_percentage(b.steals, b.minutes_played,
                                      PyInt(opponent_possessions), b.team_minutes))
       IN  IF Truthy(b.opponent_three_pointers_attempted)
           THEN Put(s1, "blk_pct",
                    block_percentage(b.blocks, b.minutes_played,
                                     b.opponent_field_goals_attempted,
                                     b.opponent_three_pointers_attempted,
                                     b.team_minutes))
           ELSE s1
  ELSE Put(Put(stats, "stl_pct", None), "blk_pct", None)

\* PlayerDefense whose possession estimate also counts free throws, taken
\* from the team's own attempts.
PlayerDefense_with_free_throws(stats, b) ==
  IF Truthy(b.opponent_field_goals_attempted)
  THEN LET opponent_possessions ==
             estimate_possessions(b.opponent_field_goals_attempted,
                                  OrZero(b.team_free_throws_attempted),
                                  OrZero(b.opponent_offensive_rebounds), R(0))
           s1 == Put(stats, "stl_pct",
                     steal_percentage(b.steals, b.minutes_played,
                                      PyInt(opponent_possessions), b.team_minutes))
       IN  IF Truthy(b.opponent_three_pointers_attempted)
           THEN Put(s1, "blk_pct",
                    block_percentage(b.blocks, b.minutes_played,
                                     b.opponent_field_goals_attempted,
                                     b.opponent_three_pointers_attempted,
                                     b.team_minutes))
           ELSE Put(s1, "blk_pct", None)
  ELSE Put(Put(stats, "stl_pct", None), "blk_pct", None)

PlayerDefense(stats, b) ==
  IF Truthy(b.opponent_field_goals_attempted)
  THEN LET opponent_possessions ==
             estimate_possessions(b.opponent_field_goals_attempted, R(0),
                                  OrZero(b.opponent_offensive_rebounds), R(0))
           s1 == Put(stats, "stl_pct",
                     steal_percentage(b.steals, b.minutes_played,
                                      PyInt(opponent_possessions), b.team_minutes))
       IN  IF Truthy(b.opponent_three_pointers_attempted)
           THEN Put(s1, "blk_pct",
                    block_percentage(b.blocks, b.minutes_played,
                                     b.opponent_field_goals_attempted,
                                     b.opponent_three_pointers_attempted,
                                     b.team_minutes))
           ELSE Put(s1, "blk_pct", None)
  ELSE Put(Put(stats, "stl_pct", None), "blk_pct", None)

calculate_all_player_stats(box_score) ==
  Outcome(PlayerDefense(
            PlayerRebounding(
              PlayerPlaymaking(
                PlayerTurnover(
                  PlayerUsage(
                    PlayerShooting(EmptyStats, box_score),
                    box_score),
                  box_score),
                box_score),
              box_score),
            box_score))

(***************************************************************************)
(* calculate_all_team_stats, block by block                                *)
(***************************************************************************)
TeamPoss(t) ==
  estimate_possessions(t.field_goals_attempted, t.free_throws_attempted,
                       t.offensive_rebounds, t.turnovers)

TeamShooting(stats, team) ==
  LET s1 == Put(stats, "ts_pct",
                true_shooting_percentage(team.points, team.field_goals_attempted,
                                         team.free_throws_attempted))
      s2 == Put(s1, "efg_pct",
                effective_field_goal_percentage(team.field_goals_made,
                                                team.three_pointers_made,
                                                team.field_goals_attempted))
  IN  Put(s2, "ftr",
          free_throw_rate(team.free_throws_attempted, team.field_goals_attempted))

TeamPossessions(stats, team, opponent) ==
  LET team_poss == TeamPoss(team)
      opp_poss == TeamPoss(opponent)
  IN  Put(Put(stats, "possessions", team_poss),
          "pace", pace(team_poss, opp_poss, team.minutes_played))

TeamEfficiency(stats, team) ==
  LET s1 == Put(stats, "ppp",
                points_per_possession(team.points, team.field_goals_attempted,
                                      team.free_throws_attempted, team.turnovers))
  IN  Put(s1, "tov_pct",
          turnover_percentage(team.field_goals_attempted,
                              team.free_throws_attempted, team.turnovers))

\* TeamRebounding with dreb_pct taken against both teams' defensive rebounds.
TeamRebounding_wrong_pool(stats, team, opponent) ==
  LET total_rebounds == Add(team.rebounds, opponent.rebounds)
  IN  IF Positive(total_rebounds)
      THEN Put(Put(Put(stats,
             "oreb_pct", Div(Mul(R(100), team.offensive_rebounds),
                             Add(team.offensive_rebounds,
                                 opponent.defensive_rebounds))),
             "dreb_pct", Div(Mul(R(100), team.defensive_rebounds),
                             Add(team.defensive_rebounds,
                                 opponent.defensive_rebounds))),
             "reb_pct", Div(Mul(R(100), team.rebounds), total_rebounds))
      ELSE Put(Put(Put(stats, "oreb_pct", None), "dreb_pct", None),
               "reb_pct", None)

TeamRebounding(stats, team, opponent) ==
  LET total_rebounds == Add(team.rebounds, opponent.rebounds)
  IN  IF Positive(total_rebounds)
      THEN Put(Put(Put(stats,
             "oreb_pct", Div(Mul(R(100), team.offensive_rebounds),
                             Add(team.offensive_rebounds,
                                 opponent.defensive_rebounds))),
             "dreb_pct", Div(Mul(R(100), team.defensive_rebounds),
                             Add(team.defensive_rebounds,
                                 opponent.offensive_rebounds))),
             "reb_pct", Div(Mul(R(100), team.rebounds), total_rebounds))
      ELSE Put(Put(Put(stats, "oreb_pct", None), "dreb_pct", None),
               "reb_pct", None)

\* TeamRatings with the defensive rating divided by the team's own possessions.
TeamRatings_own_possessions(stats, team, opponent) ==
  LET team_poss == TeamPoss(team)
      opp_poss == TeamPoss(opponent)
      s1 == IF Positive(team_poss)
            THEN Put(stats, "ortg", Div(Mul(R(100), team.points), team_poss))
            ELSE Put(stats, "ortg", None)
  IN  IF Positive(opp_poss)
      THEN Put(s1, "drtg", Div(Mul(R(100), opponent.points), team_poss))
      ELSE Put(s1, "drtg", None)

TeamRatings(stats, team, opponent) ==
  LET team_poss == TeamPoss(team)
      opp_poss == TeamPoss(opponent)
      s1 == IF Positive(team_poss)
            THEN Put(stats, "ortg", Div(Mul(R(100), team.points), team_poss))
            ELSE Put(stats, "ortg", None)
  IN  IF Positive(opp_poss)
      THEN Put(s1, "drtg", Div(Mul(R(100), opponent.points), opp_poss))
      ELSE Put(s1, "drtg", None)

\* TeamNetRating without the else branch: net_rtg is not assigned when a
\* rating is missing.
TeamNetRating_no_else(stats) ==
  IF Truthy(stats["ortg"]) /\ Truthy(stats["drtg"])
  THEN Put(stats, "net_rtg", Sub(stats["ortg"], stats["drtg"]))
  ELSE stats

TeamNetRating(stats) ==
  IF Truthy(stats["ortg"]) /\ Truthy(stats["drtg"])
  THEN Put(stats, "net_rtg", Sub(stats["ortg"], stats["drtg"]))
  ELSE Put(stats, "net_rtg", None)

\* TeamFourFactors with any([...]) in place of all([...]).
TeamFourFactors_any(stats) ==
  IF \E k \in {"efg_pct", "tov_pct", "oreb_pct", "ftr"} : Truthy(stats[k])
  THEN Put(stats, "four_factors",
           four_factors(stats["efg_pct"], stats["tov_pct"], stats["oreb_pct"],
                        stats["ftr"], DefaultWeights))
  ELSE Put(stats, "four_factors", None)

TeamFourFactors(stats) ==
  IF All(<<stats["efg_pct"], stats["tov_pct"], stats["oreb_pct"], stats["ftr"]>>)
  THEN Put(stats, "four_factors",
           four_factors(stats["efg_pct"], stats["tov_pct"], stats["oreb_pct"],
                        stats["ftr"], DefaultWeights))
  ELSE Put(stats, "four_factors", None)

calculate_all_team_stats(team, opponent) ==
  Outcome(TeamFourFactors(
            TeamNetRating(
              TeamRatings(
                TeamRebounding(
                  TeamEfficiency(
                    TeamPossessions(
                      TeamShooting(EmptyStats, team),
                      team, opponent),
                    team),
                  team, opponent),
                team, opponent))))
(***************************************************************************)
(* Inputs.  The engine keeps no state of its own: the state of the model   *)
(* is the call in progress.  Records are drawn from the dataclass defaults *)
(* and a full box score, with up to MaxChanged fields set to other values. *)
(***************************************************************************)
MaxChanged == 2

MaxScalar == 3

DefaultMinutes == 240

\* A player's game with every team and opponent total supplied.
FullPlayer ==
  [minutes_played |-> R(36), points |-> R(30),
   field_goals_made |-> R(11), field_goals_attempted |-> R(20),
   three_pointers_made |-> R(3), three_pointers_attempted |-> R(8),
   free_throws_made |-> R(5), free_throws_attempted |-> R(5),
   offensive_rebounds |-> R(2), defensive_rebounds |-> R(6), rebounds |-> R(8),
   assists |-> R(7), steals |-> R(2), blocks |-> R(1), turnovers |-> R(3),
   personal_fouls |-> R(2),
   team_minutes |-> R(DefaultMinutes),
   team_field_goals_made |-> R(40), team_field_goals_attempted |-> R(88),
   team_three_pointers_attempted |-> R(30), team_free_throws_attempted |-> R(20),
   team_offensive_rebounds |-> R(10), team_defensive_rebounds |-> R(34),
   team_rebounds |-> R(44), team_assists |-> R(24), team_turnovers |-> R(14),
   opponent_field_goals_attempted |-> R(85),
   opponent_three_pointers_attempted |-> R(28),
   opponent_offensive_rebounds |-> R(9), opponent_defensive_rebounds |-> R(32),
   opponent_rebounds |-> R(41)]

\* The Optional[int] fields of PlayerBoxScore, None by default.
OptionalFields ==
  {"team_field_goals_made", "team_field_goals_attempted",
   "team_three_pointers_attempted", "team_free_throws_attempted",
   "team_offensive_rebounds", "team_defensive_rebounds", "team_rebounds",
   "team_assists", "team_turnovers",
   "opponent_field_goals_attempted", "opponent_three_pointers_attempted",
   "opponent_offensive_rebounds", "opponent_defensive_rebounds",
   "opponent_rebounds"}

\* The same game constructed without any context: PlayerBoxScore(mp, pts, ...).
BarePlayer ==
  [f \in DOMAIN FullPlayer |-> IF f \in OptionalFields THEN None ELSE FullPlayer[f]]

PlayerFieldValues(f) ==
  IF f = "minutes_played" THEN {R(0), R(12)}
  ELSE IF f = "team_minutes" THEN {R(0), R(DefaultMinutes), R(265)}
  ELSE IF f \in OptionalFields THEN {None, R(0), R(1), FullPlayer[f]}
  ELSE {R(0), R(1)}

PlayerChanges ==
  UNION {{<<f, v>> : v \in PlayerFieldValues(f)} : f \in DOMAIN FullPlayer}

RECURSIVE PlayerVariants(_)
PlayerVariants(k) ==
  IF k = 0 THEN {FullPlayer, BarePlayer}
  ELSE LET prev == PlayerVariants(k - 1)
       IN  prev \cup {[b EXCEPT ![c[1]] = c[2]] : b \in prev, c \in PlayerChanges}

PlayerInputs == PlayerVariants(MaxChanged)

\* TeamBoxScore(): every count 0, minutes_played 240.
DefaultTeam ==
  [minutes_played |-> R(DefaultMinutes), points |-> R(0),
   field_goals_made |-> R(0), field_goals_attempted |-> R(0),
   three_pointers_made |-> R(0), three_pointers_attempted |-> R(0),
   free_throws_made |-> R(0), free_throws_attempted |-> R(0),
   offensive_rebounds |-> R(0), defensive_rebounds |-> R(0), rebounds |-> R(0),
   assists |-> R(0), steals |-> R(0), blocks |-> R(0), turnovers |-> R(0),
   personal_fouls |-> R(0)]

\* A game: 110 points over 100.8 estimated possessions against 99.2.
HomeTeam ==
  [minutes_played |-> R(DefaultMinutes), points |-> R(110),
   field_goals_made |-> R(40), field_goals_attempted |-> R(88),
   three_pointers_made |-> R(12), three_pointers_attempted |-> R(30),
   free_throws_made |-> R(18), free_throws_attempted |-> R(20),
   offensive_rebounds |-> R(10), defensive_rebounds |-> R(34), rebounds |-> R(44),
   assists |-> R(24), steals |-> R(8), blocks |-> R(5), turnovers |-> R(14),
   personal_fouls |-> R(20)]

AwayTeam ==
  [minutes_played |-> R(DefaultMinutes), points |-> R(104),
   field_goals_made |-> R(37), field_goals_attempted |-> R(85),
   three_pointers_made |-> R(10), three_pointers_attempted |-> R(28),
   free_throws_made |-> R(20), free_throws_attempted |-> R(30),
   offensive_rebounds |-> R(9), defensive_rebounds |-> R(32), rebounds |-> R(41),
   assists |-> R(22), steals |-> R(7), blocks |-> R(4), turnovers |-> R(10),
   personal_fouls |-> R(18)]

TeamFieldValues(f) ==
  IF f = "minutes_played" THEN {R(0), R(DefaultMinutes)}
  ELSE {R(0), R(1)}

TeamChanges ==
  UNION {{<<side, f, v>> : v \in TeamFieldValues(f)} :
         side \in {"team", "opponent"}, f \in DOMAIN DefaultTeam}

RECURSIVE TeamVariants(_)
TeamVariants(k) ==
  IF k = 0 THEN {[team |-> HomeTeam, opponent |-> AwayTeam],
                 [team |-> DefaultTeam, opponent |-> DefaultTeam]}
  ELSE LET prev == TeamVariants(k - 1)
       IN  prev \cup {[g EXCEPT ![c[1]][c[2]] = c[3]] : g \in prev, c \in TeamChanges}

TeamInputs == TeamVariants(MaxChanged)

\* Scalar arguments of the formulas called directly.
Scalars == {R(n) : n \in (-1)..MaxScalar}

\* Arguments of four_factors: a component over its natural range, or None
\* where the aggregate it comes from is undefined.
EfgValues == {None, R(0), <<1, 2>>, <<23, 40>>, R(1)}

TovValues == {None, R(0), R(10), <<25, 2>>, R(100)}

OrbValues == {None, R(0), R(25), <<100, 3>>, R(100)}

FtrValues == {None, R(0), <<1, 4>>, R(2)}

\* Arguments of pace: possession estimates and the minutes of a game.
PossValues == {R(-1), R(0), <<496, 5>>, <<504, 5>>}

MinuteValues == {R(0), R(48), R(DefaultMinutes), R(265)}

\* Arguments of the context-dependent formulas: counts (one negative, so
\* that a sum can vanish without its terms vanishing) and minutes.
CountValues == {R(-2), R(0), R(2), R(40)}

PlayerMinuteValues == {R(0), R(36)}

TeamMinuteValues == {R(0), R(DefaultMinutes)}

WeightValues == {DefaultWeights, << <<1, 4>>, <<1, 4>>, <<1, 4>>, <<1, 4>> >>}

\* Concurrent calls of calculate_all_player_stats, and their records.
MaxThreads == 2

ThreadRecords ==
  {FullPlayer, BarePlayer,
   [FullPlayer EXCEPT !.team_turnovers = R(0), !.opponent_rebounds = None]}

(***************************************************************************)
(* The state machine: one action per entry point, then the return          *)
(***************************************************************************)
Init ==
  /\ pc = "idle"
  /\ fn = "none"
  /\ args = <<>>
  /\ ret = Returned(None)
  /\ heap = <<>>
  /\ results = <<>>
  /\ calls = [t \in 1..MaxThreads |->
               [pc |-> "idle", box_score |-> None, stats |-> EmptyStats,
                ret |-> None]]
  /\ db = [games |-> {}, stats |-> {},
           players |-> {[player_id |-> 1, espn_player_id |-> "",
                         player_name |-> "n2", team_id |-> 0]},
           seq |-> 2]
  /\ cache = [k \in {} |-> 0]
  /\ last = [fn |-> "none", events |-> <<>>, called |-> <<>>,
             ret |-> <<0, 0>>]
  /\ ncalls = 0
  /\ odds = [rows |-> {}, mappings |-> {}, seq |-> 1]
  /\ offered = [fn |-> "none", events |-> <<>>, ret |-> <<0, 0>>]
  /\ noddscalls = 0

\* A call runs to completion in one step: the callee is entered only from
\* idle, and leaves its name, its arguments and its outcome.
CallPlayerStats ==
  /\ pc = "idle"
  /\ \E b \in PlayerInputs :
       /\ args' = <<b>>
       /\ ret' = calculate_all_player_stats(b)
  /\ fn' = "calculate_all_player_stats"
  /\ pc' = "done"
  /\ UNCHANGED notEngine

CallTeamStats ==
  /\ pc = "idle"
  /\ \E g \in TeamInputs :
       /\ args' = <<g.team, g.opponent>>
       /\ ret' = calculate_all_team_stats(g.team, g.opponent)
  /\ fn' = "calculate_all_team_stats"
  /\ pc' = "done"
  /\ UNCHANGED notEngine

CallTrueShooting ==
  /\ pc = "idle"
  /\ \E points \in Scalars, fga \in Scalars, fta \in Scalars :
       /\ args' = <<points, fga, fta>>
       /\ ret' = Returned(true_shooting_percentage(points, fga, fta))
  /\ fn' = "true_shooting_percentage"
  /\ pc' = "done"
  /\ UNCHANGED notEngine

CallEffectiveFieldGoal ==
  /\ pc = "idle"
  /\ \E fgm \in Scalars, three_pm \in Scalars, fga \in Scalars :
       /\ args' = <<fgm, three_pm, fga>>
       /\ ret' = Returned(effective_field_goal_percentage(fgm, three_pm, fga))
  /\ fn' = "effective_field_goal_percentage"
  /\ pc' = "done"
  /\ UNCHANGED notEngine

CallFreeThrowRate ==
  /\ pc = "idle"
  /\ \E fta \in Scalars, fga \in Scalars :
       /\ args' = <<fta, fga>>
       /\ ret' = Returned(free_throw_rate(fta, fga))
  /\ fn' = "free_throw_rate"
  /\ pc' = "done"
  /\ UNCHANGED notEngine

CallPointsPerPossession ==
  /\ pc = "idle"
  /\ \E points \in Scalars, fga \in Scalars, fta \in Scalars, tov \in Scalars :
       /\ args' = <<points, fga, fta, tov>>
       /\ ret' = Returned(points_per_possession(points, fga, fta, tov))
  /\ fn' = "points_per_possession"
  /\ pc' = "done"
  /\ UNCHANGED notEngine

CallFourFactors ==
  /\ pc = "idle"
  /\ \E efg_pct \in EfgValues, tov_pct \in TovValues, orb_pct \in OrbValues,
        ftr \in FtrValues, weights \in WeightValues :
       /\ args' = <<efg_pct, tov_pct, orb_pct, ftr, weights>>
       /\ ret' = Result(four_factors(efg_pct, tov_pct, orb_pct, ftr, weights))
  /\ fn' = "four_factors"
  /\ pc' = "done"
  /\ UNCHANGED notEngine

CallEstimatePossessions ==
  /\ pc = "idle"
  /\ \E fga \in Scalars, fta \in Scalars, oreb \in Scalars, tov \in Scalars :
       /\ args' = <<fga, fta, oreb, tov>>
       /\ ret' = Result(estimate_possessions(fga, fta, oreb, tov))
  /\ fn' = "estimate_possessions"
  /\ pc' = "done"
  /\ UNCHANGED notEngine

CallPace ==
  /\ pc = "idle"
  /\ \E team_possessions \in PossValues, opponent_possessions \in PossValues,
        mp \in MinuteValues :
       /\ args' = <<team_possessions, opponent_possessions, mp>>
       /\ ret' = Result(pace(team_possessions, opponent_possessions, mp))
  /\ fn' = "pace"
  /\ pc' = "done"
  /\ UNCHANGED notEngine

CallUsagePercentage ==
  /\ pc = "idle"
  /\ \E fga \in CountValues, fta \in CountValues, tov \in CountValues,
        mp \in PlayerMinuteValues, team_fga \in CountValues,
        team_fta \in CountValues, team_tov \in CountValues,
        team_mp \in TeamMinuteValues :
       /\ args' = <<fga, fta, tov, mp, team_fga, team_fta, team_tov, team_mp>>
       /\ ret' = Result(usage_percentage(fga, fta, tov, mp, team_fga, team_fta,
                                         team_tov, team_mp))
  /\ fn' = "usage_percentage"
  /\ pc' = "done"
  /\ UNCHANGED notEngine

CallAssistPercentage ==
  /\ pc = "idle"
  /\ \E ast \in CountValues, mp \in PlayerMinuteValues, team_fgm \in CountValues,
        team_mp \in TeamMinuteValues, player_fgm \in CountValues :
       /\ args' = <<ast, mp, team_fgm, team_mp, player_fgm>>
       /\ ret' = Result(assist_percentage(ast, mp, team_fgm, team_mp, player_fgm))
  /\ fn' = "assist_percentage"
  /\ pc' = "done"
  /\ UNCHANGED notEngine

CallReboundPercentage ==
  /\ pc = "idle"
  /\ \E reb \in CountValues, mp \in PlayerMinuteValues, team_reb \in CountValues,
        opponent_reb \in CountValues, team_mp \in TeamMinuteValues :
       /\ args' = <<reb, mp, team_reb, opponent_reb, team_mp>>
       /\ ret' = Result(rebound_percentage(reb, mp, team_reb, opponent_reb, team_mp))
  /\ fn' = "rebound_percentage"
  /\ pc' = "done"
  /\ UNCHANGED notEngine

CallOffensiveReboundPercentage ==
  /\ pc = "idle"
  /\ \E oreb \in CountValues, mp \in PlayerMinuteValues, team_oreb \in CountValues,
        opponent_dreb \in CountValues, team_mp \in TeamMinuteValues :
       /\ args' = <<oreb, mp, team_oreb, opponent_dreb, team_mp>>
       /\ ret' = Result(offensive_rebound_percentage(oreb, mp, team_oreb,
                                                     opponent_dreb, team_mp))
  /\ fn' = "offensive_rebound_percentage"
  /\ pc' = "done"
  /\ UNCHANGED notEngine

CallDefensiveReboundPercentage ==
  /\ pc = "idle"
  /\ \E dreb \in CountValues, mp \in PlayerMinuteValues, team_dreb \in CountValues,
        opponent_oreb \in CountValues, team_mp \in TeamMinuteValues :
       /\ args' = <<dreb, mp, team_dreb, opponent_oreb, team_mp>>
       /\ ret' = Result(defensive_rebound_percentage(dreb, mp, team_dreb,
                                                     opponent_oreb, team_mp))
  /\ fn' = "defensive_rebound_percentage"
  /\ pc' = "done"
  /\ UNCHANGED notEngine

CallStealPercentage ==
  /\ pc = "idle"
  /\ \E stl \in CountValues, mp \in PlayerMinuteValues,
        opponent_possessions \in CountValues, team_mp \in TeamMinuteValues :
       /\ args' = <<stl, mp, opponent_possessions, team_mp>>
       /\ ret' = Result(steal_percentage(stl, mp, opponent_possessions, team_mp))
  /\ fn' = "steal_percentage"
  /\ pc' = "done"
  /\ UNCHANGED notEngine

CallBlockPercentage ==
  /\ pc = "idle"
  /\ \E blk \in CountValues, mp \in PlayerMinuteValues, opponent_fga \in CountValues,
        opponent_three_pa \in CountValues, team_mp \in TeamMinuteValues :
       /\ args' = <<blk, mp, opponent_fga, opponent_three_pa, team_mp>>
       /\ ret' = Result(block_percentage(blk, mp, opponent_fga, opponent_three_pa,
                                         team_mp))
  /\ fn' = "block_percentage"
  /\ pc' = "done"
  /\ UNCHANGED notEngine

\* The caller takes the result; nothing of the call is kept.
Return ==
  /\ pc = "done"
  /\ pc' = "idle"
  /\ fn' = "none"
  /\ args' = <<>>
  /\ ret' = Returned(None)
  /\ UNCHANGED notEngine

Next ==
  \/ CallPlayerStats
  \/ CallTeamStats
  \/ CallTrueShooting
  \/ CallEffectiveFieldGoal
  \/ CallFreeThrowRate
  \/ CallPointsPerPossession
  \/ CallFourFactors
  \/ CallEstimatePossessions
  \/ CallPace
  \/ CallUsagePercentage
  \/ CallAssistPercentage
  \/ CallReboundPercentage
  \/ CallOffensiveReboundPercentage
  \/ CallDefensiveReboundPercentage
  \/ CallStealPercentage
  \/ CallBlockPercentage
  \/ Return

Spec == Init /\ [][Next]_vars

(***************************************************************************)
(* The same aggregators on objects: records are constructed on the heap    *)
(* and passed by reference, and each call hands back a reference           *)
(***************************************************************************)
MaxObjects == 4

MaxCalls == 3

\* stats = {}: a new dict, at an address no object has.
NewDict_shared(h) ==
  IF \E a \in DOMAIN h : h[a].kind = "dict"
  THEN CHOOSE a \in DOMAIN h : h[a].kind = "dict"
  ELSE Len(h) + 1

NewDict(h) == Len(h) + 1

\* The heap with obj at address a; every other object as it was.
SetObject(h, a, obj) ==
  [x \in 1..(IF a > Len(h) THEN a ELSE Len(h)) |-> IF x = a THEN obj ELSE h[x]]

PlayerObjects == {FullPlayer, BarePlayer}

\* Two teams with one rebound each, the first's defensive and the second's
\* offensive: between them no rebound at the first's offensive end.
OneDefensiveRebound ==
  [DefaultTeam EXCEPT !.defensive_rebounds = R(1), !.rebounds = R(1)]

OneOffensiveRebound ==
  [DefaultTeam EXCEPT !.offensive_rebounds = R(1), !.rebounds = R(1)]

TeamObjects == {HomeTeam, OneDefensiveRebound, OneOffensiveRebound}

\* The caller constructs PlayerBoxScore(...).
NewPlayerBoxScore ==
  /\ Len(heap) < MaxObjects
  /\ \E b \in PlayerObjects :
       heap' = Append(heap, [kind |-> "PlayerBoxScore", attrs |-> b])
  /\ UNCHANGED <<results, notObj>>

\* The caller constructs TeamBoxScore(...).
NewTeamBoxScore ==
  /\ Len(heap) < MaxObjects
  /\ \E t \in TeamObjects :
       heap' = Append(heap, [kind |-> "TeamBoxScore", attrs |-> t])
  /\ UNCHANGED <<results, notObj>>

\* A call that hands back what an earlier call computed, when there is one.
AfterCall_remembers(name, refs, out, stats) ==
  IF out.exc = "none"
  THEN /\ heap' = SetObject(heap, stats,
                            [kind |-> "dict",
                             attrs |-> IF \E i \in DOMAIN results :
                                            results[i].exc = "none"
                                       THEN heap[results[CHOOSE i \in DOMAIN results :
                                                   results[i].exc = "none"].ret].attrs
                                       ELSE out.value])
       /\ results' = Append(results, [fn |-> name, args |-> refs,
                                      exc |-> "none", ret |-> stats])
  ELSE /\ heap' = heap
       /\ results' = Append(results, [fn |-> name, args |-> refs,
                                      exc |-> out.exc, ret |-> 0])

\* What a call leaves behind: the mapping it built at the address stats
\* when it returns, nothing when it raises.  The records are only read.
AfterCall(name, refs, out, stats) ==
  IF out.exc = "none"
  THEN /\ heap' = SetObject(heap, stats, [kind |-> "dict", attrs |-> out.value])
       /\ results' = Append(results, [fn |-> name, args |-> refs,
                                      exc |-> "none", ret |-> stats])
  ELSE /\ heap' = heap
       /\ results' = Append(results, [fn |-> name, args |-> refs,
                                      exc |-> out.exc, ret |-> 0])

ObjCallPlayerStats ==
  /\ Len(heap) < MaxObjects
  /\ Len(results) < MaxCalls
  /\ \E r \in DOMAIN heap :
       /\ heap[r].kind = "PlayerBoxScore"
       /\ AfterCall("calculate_all_player_stats", <<r>>,
                    calculate_all_player_stats(heap[r].attrs), NewDict(heap))
  /\ UNCHANGED notObj

ObjCallTeamStats ==
  /\ Len(heap) < MaxObjects
  /\ Len(results) < MaxCalls
  /\ \E t \in DOMAIN heap, o \in DOMAIN heap :
       /\ heap[t].kind = "TeamBoxScore"
       /\ heap[o].kind = "TeamBoxScore"
       /\ AfterCall("calculate_all_team_stats", <<t, o>>,
                    calculate_all_team_stats(heap[t].attrs, heap[o].attrs),
                    NewDict(heap))
  /\ UNCHANGED notObj

ObjNext ==
  \/ NewPlayerBoxScore
  \/ NewTeamBoxScore
  \/ ObjCallPlayerStats
  \/ ObjCallTeamStats

ObjSpec == Init /\ [][ObjNext]_vars

(***************************************************************************)
(* calculate_all_player_stats step by step, several calls at a time        *)
(***************************************************************************)
\* The dict a call's steps read and extend: a local shared by all calls.
StatsOf_shared(t) == calls[1].stats

\* The dict a call's steps read and extend: its local stats.
StatsOf(t) == calls[t].stats

\* The call enters with its own record: stats = {}.
ParCall(t) ==
  /\ calls[t].pc = "idle"
  /\ \E b \in ThreadRecords :
       calls' = [calls EXCEPT ![t] = [pc |-> "shooting", box_score |-> b,
                                      stats |-> EmptyStats, ret |-> None]]
  /\ UNCHANGED notPar

ParShooting(t) ==
  /\ calls[t].pc = "shooting"
  /\ calls' = [calls EXCEPT ![t].stats = PlayerShooting(StatsOf(t), calls[t].box_score),
                            ![t].pc = "usage"]
  /\ UNCHANGED notPar

ParUsage(t) ==
  /\ calls[t].pc = "usage"
  /\ calls' = [calls EXCEPT ![t].stats = PlayerUsage(StatsOf(t), calls[t].box_score),
                            ![t].pc = "turnover"]
  /\ UNCHANGED notPar

ParTurnover(t) ==
  /\ calls[t].pc = "turnover"
  /\ calls' = [calls EXCEPT ![t].stats = PlayerTurnover(StatsOf(t), calls[t].box_score),
                            ![t].pc = "playmaking"]
  /\ UNCHANGED notPar

ParPlaymaking(t) ==
  /\ calls[t].pc = "playmaking"
  /\ calls' = [calls EXCEPT ![t].stats = PlayerPlaymaking(StatsOf(t), calls[t].box_score),
                            ![t].pc = "rebounding"]
  /\ UNCHANGED notPar

ParRebounding(t) ==
  /\ calls[t].pc = "rebounding"
  /\ calls' = [calls EXCEPT ![t].stats = PlayerRebounding(StatsOf(t), calls[t].box_score),
                            ![t].pc = "defense"]
  /\ UNCHANGED notPar

ParDefense(t) ==
  /\ calls[t].pc = "defense"
  /\ calls' = [calls EXCEPT ![t].stats = PlayerDefense(StatsOf(t), calls[t].box_score),
                            ![t].pc = "return"]
  /\ UNCHANGED notPar

\* return stats
ParReturn(t) ==
  /\ calls[t].pc = "return"
  /\ calls' = [calls EXCEPT ![t].ret = Outcome(StatsOf(t)), ![t].pc = "returned"]
  /\ UNCHANGED notPar

ParNext ==
  \E t \in 1..MaxThreads :
    \/ ParCall(t)
    \/ ParShooting(t)
    \/ ParUsage(t)
    \/ ParTurnover(t)
    \/ ParPlaymaking(t)
    \/ ParRebounding(t)
    \/ ParDefense(t)
    \/ ParReturn(t)

ParSpec == Init /\ [][ParNext]_vars

(***************************************************************************)
(* ESPN ingestion (src/ingest/espn_stats.py, src/ingest/player_mapping.py, *)
(* src/store).  db is the committed content of the store: the tables games, *)
(* stats (player_game_stats) and players as sets of rows, and seq, the next *)
(* value of the key sequence, which a rollback does not take back.  cache   *)
(* is PlayerIDMapper.espn_to_db_cache.  A session is a record holding the   *)
(* rows its queries see (the committed rows and the flushed ones), the      *)
(* added rows not flushed yet, which no query sees because the session is   *)
(* made with autoflush off, and whether a flush has failed.  last is the    *)
(* latest call: its name, the events given, the events handed to            *)
(* ingest_game, and what it returned.                                       *)
(***************************************************************************)
MaxIngests == 3

StatColumns == 17

PointsIndex == 1

EmptyCache == [k \in {} |-> 0]

\* The teams table, by abbreviation; 0 stands for no row.
TeamTable == [HOM |-> 1, AWY |-> 2]

_get_team_by_abbreviation(abbreviation) ==
  IF abbreviation \in DOMAIN TeamTable THEN TeamTable[abbreviation] ELSE 0

\* A reading of the status that takes a missing flag for a finished game.
is_completed_unless_false(event) == event.completed # "false"

\* status.get("type", {}).get("completed", False)
is_completed(event) == event.completed = "true"

\* The session a call works in: it starts on the committed rows.
Begin(store, mapper) ==
  [games |-> store.games, stats |-> store.stats, players |-> store.players,
   seq |-> store.seq, pending |-> {}, cache |-> mapper, failed |-> FALSE]

\* A store whose player_game_stats table has no unique constraint.
Rejected_foreign_key_only(s) ==
  \E r \in s.pending : \A p \in s.players : p.player_id # r.player_id

\* uq_game_player and the foreign key of player_game_stats.player_id, as
\* the INSERTs of a flush meet them.
Rejected(s) ==
  \E r \in s.pending :
    \/ \E q \in (s.stats \cup s.pending) \ {r} :
         q.game_id = r.game_id /\ q.player_id = r.player_id
    \/ \A p \in s.players : p.player_id # r.player_id

\* session.flush(): the added rows reach the store, or the flush raises and
\* the transaction is unusable until the rollback.
flush(s) ==
  IF s.failed \/ Rejected(s)
  THEN [s EXCEPT !.failed = TRUE]
  ELSE [s EXCEPT !.stats = @ \cup s.pending, !.pending = {}]

\* session.add of a new row.
add(s, row) ==
  [s EXCEPT !.pending = @ \cup {[row EXCEPT !.id = s.seq]}, !.seq = @ + 1]

\* session.commit(): what is stored once the transaction ends well.
Committed(s) ==
  [games |-> s.games, stats |-> s.stats, players |-> s.players, seq |-> s.seq]

\* session.rollback(): the store is as the last commit left it.
RolledBack(store, s) == [store EXCEPT !.seq = s.seq]

\* PlayerIDMapper.load_cache_from_db: entries are added, none removed.
load_cache_from_db(mapper, players) ==
  LET known == {p \in players : p.espn_player_id # ""}
      ids == {p.espn_player_id : p \in known}
  IN [k \in DOMAIN mapper \cup ids |->
        IF k \in ids
        THEN (CHOOSE p \in known : p.espn_player_id = k).player_id
        ELSE mapper[k]]

\* PlayerIDMapper.map_espn_id_to_player: the session after the call, the
\* player_id returned, and whether the call raised instead.
map_espn_id_to_player(s, espn_id, player_name, team_abbreviation) ==
  LET by_espn == {p \in s.players : p.espn_player_id = espn_id}
      by_name == {p \in s.players : p.player_name = player_name}
  IN
  IF espn_id \in DOMAIN s.cache
  THEN [s |-> s, player_id |-> s.cache[espn_id], raised |-> FALSE]
  ELSE IF s.failed
  THEN [s |-> s, player_id |-> 0, raised |-> TRUE]
  ELSE IF by_espn # {}
  THEN LET player == CHOOSE p \in by_espn : TRUE
       IN [s |-> [s EXCEPT !.cache = Put(@, espn_id, player.player_id)],
           player_id |-> player.player_id, raised |-> FALSE]
  ELSE IF by_name # {}
  THEN LET player == CHOOSE p \in by_name : TRUE
           updated == [player EXCEPT !.espn_player_id = espn_id]
           flushed == flush([s EXCEPT
                               !.players = (@ \ {player}) \cup {updated}])
       IN IF flushed.failed
          THEN [s |-> flushed, player_id |-> 0, raised |-> TRUE]
          ELSE [s |-> [flushed EXCEPT
                         !.cache = Put(@, espn_id, player.player_id)],
                player_id |-> player.player_id, raised |-> FALSE]
  ELSE LET new_player ==
             [player_id |-> s.seq, espn_player_id |-> espn_id,
              player_name |-> player_name,
              team_id |-> IF team_abbreviation # ""
                          THEN _get_team_by_abbreviation(team_abbreviation)
                          ELSE 0]
           flushed == flush([s EXCEPT !.players = @ \cup {new_player},
                                      !.seq = @ + 1])
       IN IF flushed.failed
          THEN [s |-> flushed, player_id |-> 0, raised |-> TRUE]
          ELSE [s |-> [flushed EXCEPT
                         !.cache = Put(@, espn_id, new_player.player_id)],
                player_id |-> new_player.player_id, raised |-> FALSE]

\* ESPNStatsIngestion._parse_player_stat, with the session.add and the
\* count of its caller: the session after the athlete, and whether a row
\* was counted.  A row found by the query is updated in place.
_parse_player_stat(s, athlete_data, game_id, team_id, team_abbr) ==
  IF athlete_data.id = "" \/ athlete_data.didNotPlay
  THEN [s |-> s, counted |-> FALSE]
  ELSE
    LET mapped == map_espn_id_to_player(s, athlete_data.id,
                                        athlete_data.displayName, team_abbr)
        m == mapped.s
        existing == {r \in m.stats : /\ r.game_id = game_id
                                     /\ r.player_id = mapped.player_id}
        stat_data == [id |-> 0, game_id |-> game_id,
                      player_id |-> mapped.player_id, team_id |-> team_id,
                      points |-> athlete_data.stats[PointsIndex + 1]]
    IN
    IF mapped.raised \/ mapped.player_id = 0
    THEN [s |-> m, counted |-> FALSE]
    ELSE IF Len(athlete_data.stats) < StatColumns
    THEN [s |-> m, counted |-> FALSE]
    ELSE IF m.failed
    THEN [s |-> m, counted |-> FALSE]
    ELSE IF existing # {}
    THEN LET row == CHOOSE r \in existing : TRUE
         IN [s |-> [m EXCEPT !.stats = (@ \ {row}) \cup
                       {[stat_data EXCEPT !.id = row.id]}],
             counted |-> TRUE]
    ELSE [s |-> add(m, stat_data), counted |-> TRUE]

\* The loop over the athletes of one boxscore group.  (The result of each
\* turn is bound as the element of a one-element set, so that it is
\* computed once; the loops below do the same.)
RECURSIVE athletes_loop(_, _, _, _, _)
athletes_loop(acc, athletes, game_id, team_id, team_abbr) ==
  IF athletes = <<>> THEN acc
  ELSE CHOOSE result \in
         {athletes_loop([s |-> one.s,
                         stats_count |-> IF one.counted
                                         THEN was.stats_count + 1
                                         ELSE was.stats_count],
                        Tail(athletes), game_id, team_id, team_abbr) :
            was \in {acc},
            one \in {_parse_player_stat(acc.s, Head(athletes), game_id,
                                        team_id, team_abbr)}} : TRUE

\* The team a boxscore group is recorded under (espn_stats.py line 311).
group_team_id(team_abbr, home_team_id, away_team_id) ==
  IF team_abbr # "" THEN home_team_id ELSE away_team_id

\* The loop over the groups of boxscore.players.
RECURSIVE players_data_loop(_, _, _, _, _)
players_data_loop(acc, players_data, game_id, home_team_id, away_team_id) ==
  IF players_data = <<>> THEN acc
  ELSE LET team_data == Head(players_data)
           team_abbr == team_data.abbreviation
           team_id == group_team_id(team_abbr, home_team_id, away_team_id)
       IN CHOOSE result \in
            {players_data_loop(next, Tail(players_data), game_id,
                               home_team_id, away_team_id) :
               next \in {athletes_loop(acc, team_data.athletes, game_id,
                                       team_id, team_abbr)}} : TRUE

_ingest_player_stats(s, game_id, summary, home_team_id, away_team_id) ==
  players_data_loop([s |-> s, stats_count |-> 0], summary.players, game_id,
                    home_team_id, away_team_id)

\* ESPNStatsIngestion.ingest_game: the store and the cache it leaves, and
\* the pair (success, num_player_stats) it returns.
ingest_game(store, mapper, event) ==
  LET session == Begin(store, mapper)
      home_team == _get_team_by_abbreviation(event.home)
      away_team == _get_team_by_abbreviation(event.away)
      found == {g \in session.games : g.game_id = event.id}
      with_game ==
        IF found = {}
        THEN [session EXCEPT
                !.games = @ \cup {[id |-> session.seq, game_id |-> event.id,
                                   home_team_id |-> home_team,
                                   away_team_id |-> away_team,
                                   home_score |-> event.home_score,
                                   away_score |-> event.away_score,
                                   game_status |-> "Final"]},
                !.seq = @ + 1]
        ELSE LET game == CHOOSE g \in found : TRUE
             IN [session EXCEPT
                   !.games = (@ \ {game}) \cup
                     {[game EXCEPT !.home_score = event.home_score,
                                   !.away_score = event.away_score,
                                   !.game_status = "Final"]}]
      flushed == flush(with_game)
      parsed == _ingest_player_stats(flushed, event.id, event.summary,
                                    home_team, away_team)
      done == flush(parsed.s)
  IN
  IF event.id = "" \/ home_team = 0 \/ away_team = 0
  THEN [db |-> store, cache |-> mapper, ret |-> <<FALSE, 0>>]
  ELSE IF ~event.summary.fetched \/ event.summary.players = <<>>
  THEN [db |-> Committed(flushed), cache |-> mapper, ret |-> <<TRUE, 0>>]
  ELSE IF done.failed
  THEN [db |-> RolledBack(store, done), cache |-> done.cache,
        ret |-> <<FALSE, 0>>]
  ELSE [db |-> Committed(done), cache |-> done.cache,
        ret |-> <<TRUE, parsed.stats_count>>]

\* The loop of ingest_games_for_date over the events of the scoreboard.
RECURSIVE events_loop(_, _)
events_loop(acc, events) ==
  IF events = <<>> THEN acc
  ELSE LET event == Head(events)
       IN IF ~is_completed(event)
          THEN events_loop(acc, Tail(events))
          ELSE CHOOSE result \in
                 {events_loop(
                    [db |-> out.db, cache |-> out.cache,
                     called |-> Append(was.called, event),
                     games_count |-> IF out.ret[1] THEN was.games_count + 1
                                     ELSE was.games_count,
                     stats_count |-> IF out.ret[1]
                                     THEN was.stats_count + out.ret[2]
                                     ELSE was.stats_count],
                    Tail(events)) :
                  was \in {acc},
                  out \in {ingest_game(acc.db, acc.cache, event)}} : TRUE

\* ESPNStatsIngestion.ingest_games_for_date on the events the scoreboard
\* lists.
ingest_games_for_date(store, mapper, events) ==
  IF events = <<>>
  THEN [db |-> store, cache |-> mapper, called |-> <<>>,
        games_count |-> 0, stats_count |-> 0]
  ELSE events_loop([db |-> store,
                    cache |-> load_cache_from_db(mapper, store.players),
                    called |-> <<>>, games_count |-> 0, stats_count |-> 0],
                   events)

\* What ESPN answers.  A stat line has StatColumns columns or, when
\* incomplete, none.
StatLine(points) ==
  [i \in 1..StatColumns |-> IF i = PointsIndex + 1 THEN points ELSE 0]

Athlete(id, displayName, points) ==
  [id |-> id, displayName |-> displayName, didNotPlay |-> FALSE,
   stats |-> StatLine(points)]

Group(abbreviation, athletes) ==
  [abbreviation |-> abbreviation, athletes |-> athletes]

Fetched(players) == [fetched |-> TRUE, players |-> players]

NoSummary == [fetched |-> FALSE, players |-> <<>>]

\* One player on each side.
BoxScore(points) ==
  Fetched(<<Group("HOM", <<Athlete("e1", "n1", points)>>),
            Group("AWY", <<Athlete("e2", "n2", points + 1)>>)>>)

\* The same athlete listed in both groups.
BoxListedTwice ==
  Fetched(<<Group("HOM", <<Athlete("e1", "n1", 10)>>),
            Group("AWY", <<Athlete("e1", "n1", 12)>>)>>)

\* The same athlete listed twice with a player not seen before in between.
BoxRelisted ==
  Fetched(<<Group("HOM", <<Athlete("e1", "n1", 10),
                           Athlete("e3", "n3", 4)>>),
            Group("AWY", <<Athlete("e1", "n1", 12)>>)>>)

\* A group without abbreviation: a player who did not play, one with an
\* incomplete stat line, one without id, and one who played.
BoxBench ==
  Fetched(<<Group("", <<[Athlete("e1", "n1", 0) EXCEPT !.didNotPlay = TRUE],
                        [Athlete("e3", "n3", 0) EXCEPT !.stats = <<>>],
                        Athlete("", "n1", 6),
                        Athlete("e2", "n2", 8)>>)>>)

GameIds == {"401", "402"}

Event(id, home, home_score, completed, summary) ==
  [id |-> id, home |-> home, away |-> "AWY", home_score |-> home_score,
   away_score |-> 90, completed |-> completed, summary |-> summary]

Answers ==
  {<<100, BoxScore(10)>>, <<101, BoxScore(20)>>, <<100, BoxListedTwice>>,
   <<100, BoxRelisted>>, <<100, BoxBench>>, <<100, NoSummary>>,
   <<100, Fetched(<<>>)>>}

Events ==
  {Event(g, "HOM", a[1], "true", a[2]) : g \in GameIds, a \in Answers}
    \cup {Event("", "HOM", 100, "true", BoxScore(10)),
          Event("402", "XXX", 100, "true", BoxScore(10))}

ScoreboardEvents ==
  {Event("401", "HOM", 100, "true", BoxScore(10)),
   Event("401", "HOM", 101, "false", BoxScore(20)),
   Event("402", "HOM", 100, "missing", BoxScore(10)),
   Event("402", "HOM", 100, "true", BoxListedTwice)}

Scoreboards ==
  {<<>>} \cup {<<e>> : e \in ScoreboardEvents}
         \cup {<<e, f>> : e \in ScoreboardEvents, f \in ScoreboardEvents}

CallIngestGame ==
  /\ ncalls < MaxIngests
  /\ \E event \in Events :
       LET out == ingest_game(db, cache, event)
       IN /\ db' = out.db
          /\ cache' = out.cache
          /\ last' = [fn |-> "ingest_game", events |-> <<event>>,
                      called |-> <<event>>, ret |-> out.ret]
  /\ ncalls' = ncalls + 1
  /\ UNCHANGED notEspn

CallIngestGamesForDate ==
  /\ ncalls < MaxIngests
  /\ \E events \in Scoreboards :
       LET out == ingest_games_for_date(db, cache, events)
       IN /\ db' = out.db
          /\ cache' = out.cache
          /\ last' = [fn |-> "ingest_games_for_date", events |-> events,
                      called |-> out.called,
                      ret |-> <<out.games_count, out.stats_count>>]
  /\ ncalls' = ncalls + 1
  /\ UNCHANGED notEspn

\* PlayerIDMapper.clear_cache
CallClearCache ==
  /\ cache # EmptyCache
  /\ cache' = EmptyCache
  /\ last' = [fn |-> "clear_cache", events |-> <<>>, called |-> <<>>,
              ret |-> <<0, 0>>]
  /\ UNCHANGED <<db, ncalls, notEspn>>

EspnNext ==
  \/ CallIngestGame
  \/ CallIngestGamesForDate
  \/ CallClearCache

EspnSpec == Init /\ [][EspnNext]_vars

(***************************************************************************)
(* Odds ingestion (src/ingest/odds_api.py).  odds is the committed content *)
(* of the store: the table team_odds (rows) and the table                  *)
(* odds_api_mappings (mappings) as sets of rows, and seq, the next value   *)
(* of the key sequence.  ingest_game_odds works in one session and commits *)
(* once, after the last event; nothing flushes before, so its queries see  *)
(* the committed rows only.  offered is the latest call: the events        *)
(* fetched and what the call returned.                                     *)
(***************************************************************************)
MaxOddsCalls == 3

\* A column left NULL; no price and no point offered is 0.
Null == 0

\* The game the store holds, and no game.
StoredGame == [game_id |-> "401", home_team_id |-> 1, away_team_id |-> 2]

NoGame == [game_id |-> "", home_team_id |-> 0, away_team_id |-> 0]

_find_game_by_teams_and_date(home_team_name, away_team_name) ==
  IF home_team_name = "Hawks" /\ away_team_name = "Celtics"
  THEN StoredGame ELSE NoGame

\* session.query(TeamOdds).filter_by(game_id, team_id, bookmaker): the rows
\* the query sees, and the one .first() yields.
MatchingOdds(s, game_id, team_id, bookmaker) ==
  {r \in s.rows : /\ r.game_id = game_id
                  /\ r.team_id = team_id
                  /\ r.bookmaker = bookmaker}

First(rows) == CHOOSE r \in rows : \A q \in rows : r.id <= q.id

\* TeamOdds(game_id=..., team_id=..., bookmaker=...), the other columns NULL.
TeamOdds(game_id, team_id, bookmaker) ==
  [id |-> 0, game_id |-> game_id, team_id |-> team_id,
   bookmaker |-> bookmaker, moneyline |-> Null, spread_points |-> Null,
   spread_odds |-> Null, total_points |-> Null, over_odds |-> Null,
   under_odds |-> Null]

\* An attribute assignment on a row the query returned.
Assign(s, row, changed) == [s EXCEPT !.rows = (@ \ {row}) \cup {changed}]

\* session.add(new_odds)
AddOdds(s, new_odds) ==
  [s EXCEPT !.pending = @ \cup {[new_odds EXCEPT !.id = s.seq]},
            !.seq = @ + 1]

\* One turn of the loop of _ingest_market_odds: the session after the
\* outcome and whether it was counted.
ingest_outcome(s, game, bookmaker_name, market_key, outcome, home_team_name, away_team_name) ==
  LET team_name == outcome.name
      price == outcome.price
      point == outcome.point
      named == team_name \in {home_team_name, away_team_name, "Over", "Under"}
      team_id == IF team_name = home_team_name THEN game.home_team_id
                 ELSE IF team_name = away_team_name THEN game.away_team_id
                 ELSE game.home_team_id
      matching == MatchingOdds(s, game.game_id, team_id, bookmaker_name)
      existing == First(matching)
      new_odds == TeamOdds(game.game_id, team_id, bookmaker_name)
  IN
  IF ~named THEN [s |-> s, counted |-> FALSE]
  ELSE IF market_key = "h2h"
  THEN [s |-> IF matching # {}
              THEN Assign(s, existing, [existing EXCEPT !.moneyline = price])
              ELSE AddOdds(s, [new_odds EXCEPT !.moneyline = price]),
        counted |-> TRUE]
  ELSE IF market_key = "spreads"
  THEN [s |-> IF matching # {}
              THEN Assign(s, existing, [existing EXCEPT
                                          !.spread_points = point,
                                          !.spread_odds = price])
              ELSE AddOdds(s, [new_odds EXCEPT !.spread_points = point,
                                               !.spread_odds = price]),
        counted |-> TRUE]
  ELSE IF market_key = "totals" /\ team_name = "Over"
  THEN [s |-> IF matching # {}
              THEN Assign(s, existing, [existing EXCEPT
                                          !.total_points = point,
                                          !.over_odds = price])
              ELSE AddOdds(s, [new_odds EXCEPT !.total_points = point,
                                               !.over_odds = price]),
        counted |-> TRUE]
  ELSE IF market_key = "totals" /\ team_name = "Under"
  THEN [s |-> IF matching # {}
              THEN Assign(s, existing, [existing EXCEPT !.under_odds = price])
              ELSE s,
        counted |-> FALSE]
  ELSE [s |-> s, counted |-> FALSE]

\* OddsAPIIngestion._ingest_market_odds: the loop over the outcomes.
RECURSIVE _ingest_market_odds(_, _, _, _, _, _, _)
_ingest_market_odds(acc, game, bookmaker_name, market_key, outcomes, home_team_name, away_team_name) ==
  IF outcomes = <<>> THEN acc
  ELSE LET one == ingest_outcome(acc.s, game, bookmaker_name, market_key,
                                 Head(outcomes), home_team_name,
                                 away_team_name)
       IN _ingest_market_odds(
            [s |-> one.s,
             odds_count |-> IF one.counted THEN acc.odds_count + 1
                            ELSE acc.odds_count],
            game, bookmaker_name, market_key, Tail(outcomes),
            home_team_name, away_team_name)

\* The loop of _ingest_event_odds over the markets of one bookmaker.
RECURSIVE markets_loop(_, _, _, _, _, _)
markets_loop(acc, game, bookmaker_name, markets, home_team_name, away_team_name) ==
  IF markets = <<>> THEN acc
  ELSE markets_loop(
         _ingest_market_odds(acc, game, bookmaker_name, Head(markets).key,
                             Head(markets).outcomes, home_team_name,
                             away_team_name),
         game, bookmaker_name, Tail(markets), home_team_name, away_team_name)

\* The loop of _ingest_event_odds over the bookmakers.
RECURSIVE bookmakers_loop(_, _, _, _, _)
bookmakers_loop(acc, game, bookmakers, home_team_name, away_team_name) ==
  IF bookmakers = <<>> THEN acc
  ELSE bookmakers_loop(
         markets_loop(acc, game, Head(bookmakers).key,
                      Head(bookmakers).markets, home_team_name,
                      away_team_name),
         game, Tail(bookmakers), home_team_name, away_team_name)

\* OddsAPIIngestion._create_odds_mapping
_create_odds_mapping(s, espn_game_id, odds_api_event_id) ==
  IF \E m \in s.mappings : m.espn_game_id = espn_game_id
  THEN s
  ELSE [s EXCEPT
          !.pending_mappings = @ \cup
            {[id |-> s.seq, espn_game_id |-> espn_game_id,
              odds_api_event_id |-> odds_api_event_id]},
          !.seq = @ + 1]

\* OddsAPIIngestion._ingest_event_odds: the session after the event, and
\* the pair (success, num_odds_created).
_ingest_event_odds(s, event) ==
  LET game == _find_game_by_teams_and_date(event.home_team, event.away_team)
      mapped == _create_odds_mapping(s, game.game_id, event.id)
      done == bookmakers_loop([s |-> mapped, odds_count |-> 0], game,
                              event.bookmakers, event.home_team,
                              event.away_team)
  IN IF event.id = "" \/ event.home_team = "" \/ event.away_team = ""
     THEN [s |-> s, ret |-> <<FALSE, 0>>]
     ELSE IF game = NoGame
     THEN [s |-> s, ret |-> <<FALSE, 0>>]
     ELSE [s |-> done.s, ret |-> <<TRUE, done.odds_count>>]

\* The loop of ingest_game_odds over the events fetched.
RECURSIVE odds_data_loop(_, _)
odds_data_loop(acc, odds_data) ==
  IF odds_data = <<>> THEN acc
  ELSE LET out == _ingest_event_odds(acc.s, Head(odds_data))
       IN odds_data_loop(
            [s |-> out.s,
             games_updated |-> IF out.ret[1] THEN acc.games_updated + 1
                               ELSE acc.games_updated,
             odds_created |-> IF out.ret[1]
                              THEN acc.odds_created + out.ret[2]
                              ELSE acc.odds_created],
            Tail(odds_data))

\* OddsAPIIngestion.ingest_game_odds: the store after the commit, and the
\* pair (games_updated, odds_created).
ingest_game_odds(store, odds_data) ==
  LET session == [rows |-> store.rows, mappings |-> store.mappings,
                  seq |-> store.seq, pending |-> {},
                  pending_mappings |-> {}]
      done == odds_data_loop([s |-> session, games_updated |-> 0,
                              odds_created |-> 0], odds_data)
  IN IF odds_data = <<>>
     THEN [odds |-> store, ret |-> <<0, 0>>]
     ELSE [odds |-> [rows |-> done.s.rows \cup done.s.pending,
                     mappings |-> done.s.mappings
                                    \cup done.s.pending_mappings,
                     seq |-> done.s.seq],
           ret |-> <<done.games_updated, done.odds_created>>]

\* What the Odds API answers.
Offer(name, price, point) ==
  [name |-> name, price |-> price, point |-> point]

Market(key, outcomes) == [key |-> key, outcomes |-> outcomes]

H2H(price) ==
  Market("h2h", <<Offer("Hawks", price, Null),
                  Offer("Celtics", 0 - price, Null)>>)

Spreads ==
  Market("spreads", <<Offer("Hawks", -110, -5),
                      Offer("Celtics", -110, 5)>>)

Totals ==
  Market("totals", <<Offer("Over", -110, 220),
                     Offer("Under", -105, 220)>>)

MarketLists ==
  {<<H2H(150)>>, <<H2H(170)>>, <<Spreads>>, <<Totals>>,
   <<H2H(150), Spreads>>, <<H2H(150), Totals>>,
   <<H2H(150), Spreads, Totals>>,
   <<Market("h2h", <<Offer("Draw", 300, Null)>>)>>}

Bookmaker(key, markets) == [key |-> key, markets |-> markets]

OddsEvent(id, home_team, bookmakers) ==
  [id |-> id, home_team |-> home_team, away_team |-> "Celtics",
   bookmakers |-> bookmakers]

OddsEvents ==
  {OddsEvent("ev1", "Hawks", <<Bookmaker("dk", m)>>) : m \in MarketLists}
    \cup {OddsEvent("ev1", "Hawks", <<Bookmaker("dk", <<H2H(150)>>),
                                      Bookmaker("fd", <<H2H(170)>>)>>),
          OddsEvent("ev2", "Knicks", <<Bookmaker("dk", <<H2H(150)>>)>>),
          OddsEvent("", "Hawks", <<Bookmaker("dk", <<H2H(150)>>)>>)}

OddsData ==
  {<<>>} \cup {<<e>> : e \in OddsEvents}
         \cup {<<OddsEvent("ev2", "Knicks", <<Bookmaker("dk", <<Spreads>>)>>),
                 OddsEvent("ev1", "Hawks", <<Bookmaker("dk", <<Spreads>>)>>)>>}

CallIngestGameOdds ==
  /\ noddscalls < MaxOddsCalls
  /\ \E odds_data \in OddsData :
       LET out == ingest_game_odds(odds, odds_data)
       IN /\ odds' = out.odds
          /\ offered' = [fn |-> "ingest_game_odds", events |-> odds_data,
                         ret |-> out.ret]
  /\ noddscalls' = noddscalls + 1
  /\ UNCHANGED notOdds

OddsNext == CallIngestGameOdds

OddsSpec == Init /\ [][OddsNext]_vars

(***************************************************************************)
(* Properties                                                              *)
(***************************************************************************)
Called(f) == pc = "done" /\ fn = f

PlayerCall == Called("calculate_all_player_stats")

TeamCall == Called("calculate_all_team_stats")

PlayerKeys ==
  {"ts_pct", "efg_pct", "ftr", "ppp", "usg_pct", "tov_pct", "ast_pct",
   "reb_pct", "oreb_pct", "dreb_pct", "stl_pct", "blk_pct"}

TeamKeys ==
  {"ts_pct", "efg_pct", "ftr", "possessions", "pace", "ppp", "tov_pct",
   "oreb_pct", "dreb_pct", "reb_pct", "ortg", "drtg", "net_rtg", "four_factors"}

NonNegative(rec) == \A f \in DOMAIN rec : rec[f] = None \/ rec[f][1] >= 0

\* A team record as the data model describes it.
ValidTeam(t) ==
  /\ NonNegative(t)
  /\ t.rebounds = Add(t.offensive_rebounds, t.defensive_rebounds)

\* The optional fields each context-dependent metric requires.
RequiredFields(m) ==
  CASE m = "usg_pct" -> {"team_field_goals_attempted", "team_free_throws_attempted",
                         "team_turnovers"}
    [] m = "ast_pct" -> {"team_field_goals_made"}
    [] m = "reb_pct" -> {"team_rebounds", "opponent_rebounds"}
    [] m = "oreb_pct" -> {"team_offensive_rebounds", "opponent_defensive_rebounds"}
    [] m = "dreb_pct" -> {"team_defensive_rebounds", "opponent_offensive_rebounds"}
    [] m = "stl_pct" -> {"opponent_field_goals_attempted",
                         "opponent_offensive_rebounds"}
    [] m = "blk_pct" -> {"opponent_field_goals_attempted",
                         "opponent_three_pointers_attempted"}

ContextMetrics ==
  {"usg_pct", "ast_pct", "reb_pct", "oreb_pct", "dreb_pct", "stl_pct", "blk_pct"}

AllPresent(b, m) == \A f \in RequiredFields(m) : b[f] # None

\* The formula function of a context-dependent metric on the record's fields.
FormulaOf(m, b) ==
  CASE m = "usg_pct" ->
         usage_percentage(b.field_goals_attempted, b.free_throws_attempted,
                          b.turnovers, b.minutes_played,
                          b.team_field_goals_attempted,
                          b.team_free_throws_attempted, b.team_turnovers,
                          b.team_minutes)
    [] m = "ast_pct" ->
         assist_percentage(b.assists, b.minutes_played, b.team_field_goals_made,
                           b.team_minutes, b.field_goals_made)
    [] m = "reb_pct" ->
         rebound_percentage(b.rebounds, b.minutes_played, b.team_rebounds,
                            b.opponent_rebounds, b.team_minutes)
    [] m = "oreb_pct" ->
         offensive_rebound_percentage(b.offensive_rebounds, b.minutes_played,
                                      b.team_offensive_rebounds,
                                      b.opponent_defensive_rebounds, b.team_minutes)
    [] m = "dreb_pct" ->
         defensive_rebound_percentage(b.defensive_rebounds, b.minutes_played,
                                      b.team_defensive_rebounds,
                                      b.opponent_offensive_rebounds, b.team_minutes)
    [] m = "stl_pct" ->
         steal_percentage(b.steals, b.minutes_played,
                          PyInt(estimate_possessions(
                                  b.opponent_field_goals_attempted, R(0),
                                  b.opponent_offensive_rebounds, R(0))),
                          b.team_minutes)
    [] m = "blk_pct" ->
         block_percentage(b.blocks, b.minutes_played,
                          b.opponent_field_goals_attempted,
                          b.opponent_three_pointers_attempted, b.team_minutes)

\* C1: for every pair of valid team records (non-negative counts, rebounds =
\* offensive + defensive) and every player record with non-negative counts,
\* the aggregators return a mapping and raise no exception.
C1_NeverRaises ==
  /\ PlayerCall /\ NonNegative(args[1]) => ret.exc = "none"
  /\ TeamCall /\ ValidTeam(args[1]) /\ ValidTeam(args[2]) => ret.exc = "none"

\* C2: with every required context field of usg_pct, ast_pct, reb_pct,
\* stl_pct or blk_pct present (zero included) and minutes_played non-zero,
\* calculate_all_player_stats returns a number for that metric.  Stated on
\* the records where the metric's own formula function returns a number, so
\* that a violation is the aggregator's doing and not a zero denominator's.
C2_DefinedWhenPresent ==
  PlayerCall /\ ret.exc = "none" /\ ~IsZero(args[1].minutes_played) =>
    \A m \in {"usg_pct", "ast_pct", "reb_pct", "stl_pct", "blk_pct"} :
      AllPresent(args[1], m) /\ FormulaOf(m, args[1]) # None =>
        ret.value[m] # None

\* C3: a context-dependent metric is undefined whenever one of the optional
\* fields it requires is absent.
C3_UndefinedWhenAbsent ==
  PlayerCall /\ ret.exc = "none" =>
    \A m \in ContextMetrics :
      ~AllPresent(args[1], m) => ret.value[m] = None

\* C4: when the required fields of a context-dependent metric are all
\* non-null (zero included), the aggregator's value for it is the result of
\* the metric's formula function on the record's fields.
C4_PresenceDecidesAlone ==
  PlayerCall /\ ret.exc = "none" =>
    \A m \in ContextMetrics :
      AllPresent(args[1], m) => ret.value[m] = FormulaOf(m, args[1])

\* C5: calculate_all_player_stats returns a mapping with exactly the twelve
\* player metric names as keys, whatever context fields are present.
C5_PlayerKeySet ==
  PlayerCall => ret.exc = "none" /\ DOMAIN ret.value = PlayerKeys

\* A record with usage context absent, steal context present and block
\* context absent still yields the full key set.
C5_Witness ==
  /\ PlayerCall
  /\ args[1].team_turnovers = None
  /\ args[1].opponent_field_goals_attempted # None
  /\ args[1].opponent_three_pointers_attempted = None
  /\ ret.exc = "none"
  /\ ret.value["stl_pct"] # None
  /\ ret.value["blk_pct"] = None

\* C6: whenever calculate_all_team_stats returns, its mapping has exactly the
\* fourteen team metric names as keys, on every branch.
C6_TeamKeySet ==
  TeamCall /\ ret.exc = "none" => DOMAIN ret.value = TeamKeys

\* The rebound pool is empty, the team's possessions are positive and the
\* four factors are not computed.
C6_Witness ==
  /\ TeamCall
  /\ ret.exc = "none"
  /\ ret.value["reb_pct"] = None
  /\ ret.value["ortg"] # None
  /\ ret.value["net_rtg"] = None
  /\ ret.value["four_factors"] = None

\* C7: TS%, eFG%, FTr and PPP are undefined exactly when their denominator
\* is zero, and otherwise are the raw ratio (value * denominator = numerator).
C7_UndefinedIffZeroDenominator ==
  /\ Called("true_shooting_percentage") =>
       LET den == Add(args[2], Mul(<<44, 100>>, args[3]))
       IN  /\ ret.value = None <=> IsZero(den)
           /\ ~IsZero(den) => Mul(ret.value, Mul(R(2), den)) = args[1]
  /\ Called("effective_field_goal_percentage") =>
       /\ ret.value = None <=> IsZero(args[3])
       /\ ~IsZero(args[3]) =>
            Mul(ret.value, args[3]) = Add(args[1], Mul(<<1, 2>>, args[2]))
  /\ Called("free_throw_rate") =>
       /\ ret.value = None <=> IsZero(args[2])
       /\ ~IsZero(args[2]) => Mul(ret.value, args[2]) = args[1]
  /\ Called("points_per_possession") =>
       LET den == Add(Add(args[2], Mul(<<44, 100>>, args[3])), args[4])
       IN  /\ ret.value = None <=> IsZero(den)
           /\ ~IsZero(den) => Mul(ret.value, den) = args[1]

\* FGA = 0, FTA = 0, PTS = 0, TOV = 0: points per possession is undefined.
C7_Witness ==
  /\ Called("points_per_possession")
  /\ args = <<R(0), R(0), R(0), R(0)>>
  /\ ret.value = None

\* C8: net_rtg is defined exactly when ortg and drtg are both defined, and
\* is then ortg - drtg, also when a defined rating is 0.
C8_NetRating ==
  TeamCall /\ ret.exc = "none" =>
    LET ortg == ret.value["ortg"]
        drtg == ret.value["drtg"]
    IN  IF ortg # None /\ drtg # None
        THEN ret.value["net_rtg"] # None
             /\ Add(ret.value["net_rtg"], drtg) = ortg
        ELSE ret.value["net_rtg"] = None

\* C9: ortg is defined iff the team's estimated possessions are strictly
\* positive and is then 100 * points / possessions; drtg likewise from the
\* opponent's points and possessions.
C9_Ratings ==
  TeamCall /\ ret.exc = "none" =>
    LET Poss(t) == Add(Add(Sub(t.field_goals_attempted, t.offensive_rebounds),
                           t.turnovers),
                       Mul(<<44, 100>>, t.free_throws_attempted))
        Rating(v, t) ==
          /\ v # None <=> Positive(Poss(t))
          /\ Positive(Poss(t)) => Mul(v, Poss(t)) = Mul(R(100), t.points)
    IN  /\ Rating(ret.value["ortg"], args[1])
        /\ Rating(ret.value["drtg"], args[2])

\* 110 points over 100.8 possessions: ORtg = 100 * 110 / 100.8 = 6875/63.
C9_Witness ==
  /\ TeamCall
  /\ args[1].points = R(110)
  /\ ret.exc = "none"
  /\ ret.value["possessions"] = <<504, 5>>
  /\ ret.value["ortg"] = <<6875, 63>>
  /\ ret.value["drtg"] # None

\* C10: four_factors returns w0*eFG% + w1*(1 - TOV%/100) + w2*(ORB%/100) +
\* w3*FTr for every numeric input, TOV% = 0 and ORB% = 0 included.
C10_FourFactorsFormula ==
  Called("four_factors") /\ (\A i \in 1..4 : args[i] # None) =>
    LET w == args[5]
    IN  ret.value =
          Add(Add(Mul(w[1], args[1]),
                  Mul(w[2], Sub(R(1), Div(args[2], R(100))))),
              Add(Mul(w[3], Div(args[3], R(100))),
                  Mul(w[4], args[4])))

Geq(a, b) == Sub(a, b)[1] >= 0

\* C11: when one of the four inputs of four_factors is None, the function
\* still returns a number, in which the missing component contributes 0
\* (the value is compared where TOV% is not 0).
C11_MissingComponentIsZero ==
  Called("four_factors") /\ (\E i \in 1..4 : args[i] = None) =>
    /\ ret.exc = "none"
    /\ ret.value # None
    /\ args[2] # R(0) =>
         LET w == args[5]
             efg == IF args[1] = None THEN R(0) ELSE Mul(w[1], args[1])
             tov == IF args[2] = None THEN R(0)
                    ELSE Mul(w[2], Sub(R(1), Div(args[2], R(100))))
             orb == IF args[3] = None THEN R(0)
                    ELSE Mul(w[3], Div(args[3], R(100)))
             ftr == IF args[4] = None THEN R(0) ELSE Mul(w[4], args[4])
         IN  ret.value = Add(Add(efg, tov), Add(orb, ftr))

\* C12: in calculate_all_team_stats, four_factors is undefined whenever one
\* of efg_pct, tov_pct, oreb_pct and ftr is undefined.
C12_FourFactorsNeedsAll ==
  TeamCall /\ ret.exc = "none" =>
    ((\E k \in {"efg_pct", "tov_pct", "oreb_pct", "ftr"} : ret.value[k] = None)
       => ret.value["four_factors"] = None)

\* The rebound pool is empty, so oreb_pct is undefined while the other three
\* components are defined and non-zero: four_factors is undefined.
C12_Witness ==
  /\ TeamCall
  /\ ret.exc = "none"
  /\ ret.value["oreb_pct"] = None
  /\ Truthy(ret.value["efg_pct"])
  /\ Truthy(ret.value["tov_pct"])
  /\ Truthy(ret.value["ftr"])
  /\ ret.value["four_factors"] = None

\* C13: when both are defined, oreb_pct of (A, B) plus dreb_pct of (B, A)
\* is 100.
C13_ReboundComplement ==
  TeamCall /\ ret.exc = "none" =>
    LET back == calculate_all_team_stats(args[2], args[1])
    IN  back.exc = "none" /\ ret.value["oreb_pct"] # None
          /\ back.value["dreb_pct"] # None
        => Add(ret.value["oreb_pct"], back.value["dreb_pct"]) = R(100)

\* 10 offensive rebounds against 32 defensive ones: 500/21 and 1600/21.
C13_Witness ==
  /\ TeamCall
  /\ ret.exc = "none"
  /\ ret.value["oreb_pct"] = <<500, 21>>
  /\ calculate_all_team_stats(args[2], args[1]).exc = "none"
  /\ calculate_all_team_stats(args[2], args[1]).value["dreb_pct"] = <<1600, 21>>

ContextFreeMetrics == {"ts_pct", "efg_pct", "ftr", "ppp", "tov_pct"}

\* The formula function of a context-free metric on the player's own counts.
OwnFormulaOf(m, b) ==
  CASE m = "ts_pct" ->
         true_shooting_percentage(b.points, b.field_goals_attempted,
                                  b.free_throws_attempted)
    [] m = "efg_pct" ->
         effective_field_goal_percentage(b.field_goals_made, b.three_pointers_made,
                                         b.field_goals_attempted)
    [] m = "ftr" ->
         free_throw_rate(b.free_throws_attempted, b.field_goals_attempted)
    [] m = "ppp" ->
         points_per_possession(b.points, b.field_goals_attempted,
                               b.free_throws_attempted, b.turnovers)
    [] m = "tov_pct" ->
         turnover_percentage(b.field_goals_attempted, b.free_throws_attempted,
                             b.turnovers)

\* The record with every team and opponent total absent and the team's
\* minutes at their default: what is left is the player's own line.
StripContext(b) ==
  [f \in DOMAIN b |-> IF f \in OptionalFields THEN None
                      ELSE IF f = "team_minutes" THEN R(DefaultMinutes)
                      ELSE b[f]]

\* C15: calculate_all_player_stats computes ts_pct, efg_pct, ftr, ppp and
\* tov_pct whatever the context: each equals its formula on the player's own
\* counts, and equals the value computed for the record with all team and
\* opponent context removed, so two records that differ only in context
\* fields get the same five values.
C15_ContextFreeUnconditional ==
  PlayerCall =>
    LET stripped == calculate_all_player_stats(StripContext(args[1]))
    IN  /\ ret.exc = "none"
        /\ stripped.exc = "none"
        /\ \A m \in ContextFreeMetrics :
             /\ ret.value[m] = OwnFormulaOf(m, args[1])
             /\ ret.value[m] = stripped.value[m]

\* A record whose usage context is present but zero, with the five
\* context-free metrics all computed.
C15_Witness ==
  /\ PlayerCall
  /\ args[1].team_turnovers = R(0)
  /\ args[1].opponent_rebounds # None
  /\ ret.exc = "none"
  /\ ret.value["usg_pct"] = None
  /\ \A m \in ContextFreeMetrics : ret.value[m] # None

\* The record with every optional field outside the metric's group absent.
OnlyGroup(b, m) ==
  [f \in DOMAIN b |-> IF f \in OptionalFields /\ f \notin RequiredFields(m)
                      THEN None ELSE b[f]]

\* The block of calculate_all_player_stats that assigns metric m.
BlockOf(m, stats, b) ==
  CASE m = "usg_pct" -> PlayerUsage(stats, b)
    [] m = "ast_pct" -> PlayerPlaymaking(stats, b)
    [] m \in {"reb_pct", "oreb_pct", "dreb_pct"} -> PlayerRebounding(stats, b)
    [] m \in {"stl_pct", "blk_pct"} -> PlayerDefense(stats, b)

\* C16: the value of each context-dependent metric depends only on the
\* optional fields of its own group: it is the value its block assigns on
\* the record in which every optional field outside the group is absent.
C16_PerGroupPresence ==
  PlayerCall =>
    /\ ret.exc = "none"
    /\ \A m \in ContextMetrics :
         ret.value[m] = BlockOf(m, EmptyStats, OnlyGroup(args[1], m))[m]

\* Every opponent field is absent and the team's made field goals are
\* supplied with one total from outside the group, the team's assists:
\* ast_pct is computed while usg_pct is not.
C16_Witness ==
  /\ PlayerCall
  /\ ret.exc = "none"
  /\ \A f \in OptionalFields \ {"team_field_goals_made", "team_assists"} :
       args[1][f] = None
  /\ args[1].team_assists # None
  /\ OnlyGroup(args[1], "ast_pct") # args[1]
  /\ ret.value["ast_pct"] # None
  /\ ret.value["usg_pct"] = None

\* FGA + 0.44*FTA - OREB + TOV on whole counts, in hundredths.
PossessionsOf(fga, fta, oreb, tov) ==
  Norm(100 * fga[1] + 44 * fta[1] - 100 * oreb[1] + 100 * tov[1], 100)

\* C17: estimate_possessions returns FGA + 0.44*FTA - OREB + TOV for every
\* input, a number also when negative; the possessions entry of
\* calculate_all_team_stats is that estimate on the team's own record
\* (100.8 for FGA 88, FTA 20, OREB 10, TOV 14), whatever the opponent's.
C17_EstimatePossessions ==
  /\ Called("estimate_possessions") =>
       /\ ret.exc = "none"
       /\ ret.value # None
       /\ ret.value = PossessionsOf(args[1], args[2], args[3], args[4])
  /\ TeamCall /\ ret.exc = "none" =>
       /\ ret.value["possessions"] =
            PossessionsOf(args[1].field_goals_attempted,
                          args[1].free_throws_attempted,
                          args[1].offensive_rebounds, args[1].turnovers)
       /\ (/\ args[1].field_goals_attempted = R(88)
           /\ args[1].free_throws_attempted = R(20)
           /\ args[1].offensive_rebounds = R(10)
           /\ args[1].turnovers = R(14)) =>
            ret.value["possessions"] = <<504, 5>>

\* More offensive rebounds than attempts and turnovers: a negative estimate.
C17_Witness ==
  /\ Called("estimate_possessions")
  /\ args = <<R(1), R(1), R(3), R(0)>>
  /\ ret.exc = "none"
  /\ ret.value = <<-39, 25>>

\* C18: pace is undefined exactly when MP = 0 and otherwise is
\* 48*((TmPoss + OppPoss)/(2*(MP/5))), that is pace * MP = 120 * (TmPoss +
\* OppPoss); the pace entry of calculate_all_team_stats is this value for
\* the two possession estimates and the team's minutes.
C18_Pace ==
  /\ Called("pace") =>
       /\ ret.exc = "none"
       /\ ret.value = None <=> IsZero(args[3])
       /\ ret.value # None =>
            Mul(ret.value, args[3]) = Mul(R(120), Add(args[1], args[2]))
       /\ args = <<<<504, 5>>, <<496, 5>>, R(240)>> => ret.value = R(100)
  /\ TeamCall /\ ret.exc = "none" =>
       LET team_poss ==
             PossessionsOf(args[1].field_goals_attempted,
                           args[1].free_throws_attempted,
                           args[1].offensive_rebounds, args[1].turnovers)
           opp_poss ==
             PossessionsOf(args[2].field_goals_attempted,
                           args[2].free_throws_attempted,
                           args[2].offensive_rebounds, args[2].turnovers)
       IN  /\ ret.value["pace"] = None <=> IsZero(args[1].minutes_played)
           /\ ret.value["pace"] # None =>
                Mul(ret.value["pace"], args[1].minutes_played) =
                  Mul(R(120), Add(team_poss, opp_poss))

\* 100.8 and 99.2 possessions over 240 minutes: a pace of 100.
C18_Witness ==
  /\ TeamCall
  /\ ret.exc = "none"
  /\ args[1].minutes_played = R(240)
  /\ args[2].field_goals_attempted = R(85)
  /\ ret.value["possessions"] = <<504, 5>>
  /\ ret.value["pace"] = R(100)

\* a lies in [lo, hi].
Within(a, lo, hi) == a # None /\ ~IsErr(a) /\ Geq(a, lo) /\ Geq(hi, a)

\* C19: with weights summing to 1 and eFG% in [0,1], TOV% in [0,100], ORB%
\* in [0,100] and FTr in [0,F], the four_factors score lies in
\* [0, w0 + w1 + w2 + w3*F]; with the default weights, [0, 0.85 + 0.15*F].
C19_FourFactorsRange ==
  Called("four_factors") =>
    LET w == args[5]
    IN  /\ Add(Add(w[1], w[2]), Add(w[3], w[4])) = R(1)
        /\ Within(args[1], R(0), R(1))
        /\ Within(args[2], R(0), R(100))
        /\ Within(args[3], R(0), R(100))
        /\ args[4] # None
        => /\ ret.exc = "none"
           /\ \A F \in FtrValues \ {None} :
                Within(args[4], R(0), F) =>
                  /\ Within(ret.value, R(0),
                            Add(Add(w[1], w[2]), Add(w[3], Mul(w[4], F))))
                  /\ w = DefaultWeights =>
                       Within(ret.value, R(0), Add(<<17, 20>>, Mul(<<3, 20>>, F)))

\* Perfect shooting, every offensive rebound, one turnover in ten plays and
\* two free throws per attempt: 0.40 + 0.225 + 0.20 + 0.30.
C19_Witness ==
  /\ Called("four_factors")
  /\ args = <<R(1), R(10), R(100), R(2), DefaultWeights>>
  /\ ret.exc = "none"
  /\ ret.value = <<9, 8>>

\* C20: no call of an aggregator changes an object that existed before it:
\* every field of the records passed, of every other record and of every
\* mapping returned earlier keeps its value; and a call that returns hands
\* back a mapping at an address that held no object before the call, so it
\* is none of the call's arguments, is referenced by no record, and is not
\* the mapping any earlier call returned.
C20_InputsUntouchedResultFresh ==
  [][/\ \A a \in DOMAIN heap : a \in DOMAIN heap' /\ heap'[a] = heap[a]
     /\ Len(results') > Len(results) =>
          LET c == results'[Len(results')]
          IN  c.exc = "none" =>
                /\ c.ret \notin DOMAIN heap
                /\ c.ret \in DOMAIN heap'
                /\ heap'[c.ret].kind = "dict"
                /\ \A i \in DOMAIN c.args : c.args[i] # c.ret
                /\ \A i \in DOMAIN results : results[i].ret # c.ret]_vars

\* The same player record passed to two calls: two mappings with the same
\* contents at two addresses, and the record as it was constructed.
C20_Witness ==
  \E i \in DOMAIN results, j \in DOMAIN results :
    /\ i < j
    /\ results[i].fn = "calculate_all_player_stats"
    /\ results[j].fn = "calculate_all_player_stats"
    /\ results[i].args = results[j].args
    /\ results[i].exc = "none"
    /\ results[j].exc = "none"
    /\ results[i].ret # results[j].ret
    /\ heap[results[i].ret] = heap[results[j].ret]
    /\ heap[results[i].args[1]].attrs = FullPlayer

\* What the call recorded as c yields when it is the only call ever made,
\* the records being as they are in the heap h.
MadeFirst(h, c) ==
  IF c.fn = "calculate_all_player_stats"
  THEN calculate_all_player_stats(h[c.args[1]].attrs)
  ELSE calculate_all_team_stats(h[c.args[1]].attrs, h[c.args[2]].attrs)

\* C21: whatever calls were made before it, every aggregator call (and so
\* every formula it evaluates) ends as the same call made first: it raises
\* the same exception or returns a mapping with the same contents, a
\* function of the records passed and of nothing else; and no later call
\* changes the records or the mapping of an earlier one.
C21_NoStateBetweenCalls ==
  [][\A i \in DOMAIN results' :
       LET c == results'[i]
           first == MadeFirst(heap', c)
       IN IF i \in DOMAIN results
          THEN /\ c = results[i]
               /\ \A r \in {c.args[k] : k \in DOMAIN c.args} :
                    heap'[r] = heap[r]
               /\ c.exc = "none" => heap'[c.ret] = heap[c.ret]
          ELSE /\ c.exc = first.exc
               /\ c.exc = "none" => heap'[c.ret].attrs = first.value]_vars

\* A call on the player record without context, then a call on the record
\* with full context: the second returns what it returns when made first,
\* not what the earlier call returned.
C21_Witness ==
  /\ Len(results) = 2
  /\ results[1].fn = "calculate_all_player_stats"
  /\ results[2].fn = "calculate_all_player_stats"
  /\ results[1].exc = "none"
  /\ results[2].exc = "none"
  /\ heap[results[1].args[1]].attrs = BarePlayer
  /\ heap[results[2].args[1]].attrs = FullPlayer
  /\ heap[results[2].ret].attrs # heap[results[1].ret].attrs
  /\ heap[results[2].ret].attrs = calculate_all_player_stats(FullPlayer).value

\* value is num/den: defined, and value * den = num.
IsRatio(value, num, den) == value # None /\ ~IsErr(value) /\ Mul(value, den) = num

\* MP / (TmMP / 5), the player's share of the team's minutes.
ShareOf(mp, team_mp) == Div(Mul(R(5), mp), team_mp)

\* A rebounding rate: undefined iff MP = 0 or the pool is empty, otherwise
\* 100 * (count * (TmMP/5)) / (MP * pool).
ReboundContract ==
  LET pool == Add(args[3], args[4])
      undefined == IsZero(args[2]) \/ IsZero(pool)
  IN  /\ ret.exc = "none"
      /\ ret.value = None <=> undefined
      /\ ~undefined => IsRatio(ret.value, Mul(R(20), Mul(args[1], args[5])),
                               Mul(args[2], pool))

\* C23: each context-dependent formula returns None exactly under its
\* condition and the scaled ratio otherwise, and never raises.
C23_ContextFormulaContracts ==
  /\ Called("usage_percentage") =>
       LET own == Add(Add(args[1], Mul(F044, args[2])), args[3])
           team == Add(Add(args[5], Mul(F044, args[6])), args[7])
           undefined == IsZero(args[4]) \/ IsZero(team)
       IN  /\ ret.exc = "none"
           /\ ret.value = None <=> undefined
           /\ ~undefined => IsRatio(ret.value, Mul(R(20), Mul(own, args[8])),
                                    Mul(args[4], team))
  /\ Called("rebound_percentage") => ReboundContract
  /\ Called("offensive_rebound_percentage") => ReboundContract
  /\ Called("defensive_rebound_percentage") => ReboundContract
  /\ Called("assist_percentage") =>
       LET zero_minutes == IsZero(args[2]) \/ IsZero(args[4])
           teammates == Sub(Mul(ShareOf(args[2], args[4]), args[3]), args[5])
           undefined == zero_minutes \/ LeqZero(teammates)
       IN  /\ ret.exc = "none"
           /\ ret.value = None <=> undefined
           /\ ~undefined => IsRatio(ret.value, Mul(R(100), args[1]), teammates)
  /\ Called("steal_percentage") =>
       LET zero_minutes == IsZero(args[2]) \/ IsZero(args[4])
           faced == Mul(ShareOf(args[2], args[4]), args[3])
           undefined == zero_minutes \/ IsZero(faced)
       IN  /\ ret.exc = "none"
           /\ ret.value = None <=> undefined
           /\ ~undefined => IsRatio(ret.value, Mul(R(100), args[1]), faced)
  /\ Called("block_percentage") =>
       LET zero_minutes == IsZero(args[2]) \/ IsZero(args[5])
           faced == Mul(ShareOf(args[2], args[5]), Sub(args[3], args[4]))
           undefined == zero_minutes \/ IsZero(faced)
       IN  /\ ret.exc = "none"
           /\ ret.value = None <=> undefined
           /\ ~undefined => IsRatio(ret.value, Mul(R(100), args[1]), faced)

\* 36 of 240 minutes, the team made 2 field goals and the player 2 of his
\* own: the teammates' share is 1.5 - 2 < 0 and AST% is undefined.
C23_Witness ==
  /\ Called("assist_percentage")
  /\ args = <<R(2), R(36), R(2), R(240), R(2)>>
  /\ ret.exc = "none"
  /\ ret.value = None

\* C24: the opponent-possessions estimate behind stl_pct is OppFGA - OppOREB
\* (free throws and turnovers taken as zero), int() leaves it as it is, and
\* a defined stl_pct is 100*STL / ((MP/(TmMP/5)) * (OppFGA - OppOREB)).
\* The ratio is stated where the opponent's offensive rebounds are supplied.
C24_StealPossessionEstimate ==
  PlayerCall /\ ret.exc = "none" /\ ret.value["stl_pct"] # None =>
    LET b == args[1]
        estimate == estimate_possessions(b.opponent_field_goals_attempted, R(0),
                                         OrZero(b.opponent_offensive_rebounds),
                                         R(0))
    IN  /\ PyInt(estimate) = estimate
        /\ estimate = Sub(b.opponent_field_goals_attempted,
                          OrZero(b.opponent_offensive_rebounds))
        /\ b.opponent_offensive_rebounds # None =>
             IsRatio(ret.value["stl_pct"], Mul(R(100), b.steals),
                     Mul(ShareOf(b.minutes_played, b.team_minutes),
                         Sub(b.opponent_field_goals_attempted,
                             b.opponent_offensive_rebounds)))

\* 2 steals in 36 of 240 minutes against 85 attempts and 9 offensive
\* rebounds: 200 / (0.75 * 76).
C24_Witness ==
  /\ PlayerCall
  /\ args[1].steals = R(2)
  /\ args[1].opponent_field_goals_attempted = R(85)
  /\ args[1].opponent_offensive_rebounds = R(9)
  /\ args[1].team_free_throws_attempted = R(20)
  /\ ret.exc = "none"
  /\ ret.value["stl_pct"] = <<200, 57>>

\* C25: in calculate_all_team_stats, four_factors is defined whenever
\* efg_pct, tov_pct, oreb_pct and ftr are all defined, a value of 0 included.
C25_FourFactorsDefinedAtZero ==
  TeamCall /\ ret.exc = "none" =>
    ((\A m \in {"efg_pct", "tov_pct", "oreb_pct", "ftr"} : ret.value[m] # None)
       => ret.value["four_factors"] # None)

\* C22: under every interleaving of the steps of concurrent calls, each call
\* returns the mapping it returns when run alone on its record.
C22_ConcurrentCallsIndependent ==
  \A t \in 1..MaxThreads :
    calls[t].pc = "returned" =>
      calls[t].ret = calculate_all_player_stats(calls[t].box_score)

\* The second call has returned its full mapping while the first, on
\* another record, is still between its blocks.
C22_Witness ==
  /\ calls[1].pc = "rebounding"
  /\ calls[1].box_score = BarePlayer
  /\ calls[2].pc = "returned"
  /\ calls[2].box_score = FullPlayer
  /\ calls[2].ret = calculate_all_player_stats(FullPlayer)
  /\ calls[2].ret.value["usg_pct"] # None

\* The rows of the store that belong to one game.
RowsOf(store, game_id) ==
  <<{g \in store.games : g.game_id = game_id},
    {r \in store.stats : r.game_id = game_id}>>

\* C26: ingest_games_for_date hands to ingest_game exactly the events whose
\* completed flag is true, counts no more games than those, and leaves the
\* rows of a game alone when none of its events in the scoreboard is
\* completed.
C26_OnlyCompletedGamesIngested ==
  [][last'.fn = "ingest_games_for_date" =>
       /\ \A i \in DOMAIN last'.called : last'.called[i].completed = "true"
       /\ Len(last'.called) =
            Cardinality({i \in DOMAIN last'.events :
                           last'.events[i].completed = "true"})
       /\ last'.ret[1] <= Len(last'.called)
       /\ \A i \in DOMAIN last'.events :
            (\A j \in DOMAIN last'.events :
               last'.events[j].id = last'.events[i].id
                 => last'.events[j].completed # "true")
              => RowsOf(db', last'.events[i].id)
                   = RowsOf(db, last'.events[i].id)]_vars

\* A scoreboard listing a game without completed flag and then a finished
\* one: only the finished game was handed on, counted and stored.
C26_Witness ==
  /\ last.fn = "ingest_games_for_date"
  /\ Len(last.events) = 2
  /\ last.events[1].completed = "missing"
  /\ last.events[1].id = "402"
  /\ last.events[2].completed = "true"
  /\ last.events[2].id = "401"
  /\ Len(last.called) = 1
  /\ last.ret = <<1, 2>>
  /\ RowsOf(db, "402") = <<{}, {}>>
  /\ Cardinality(RowsOf(db, "401")[2]) = 2

\* How often an athlete id is listed in a summary.
Listings(summary, id) ==
  UNION {{<<i, j>> : j \in {k \in DOMAIN summary.players[i].athletes :
                              summary.players[i].athletes[k].id = id}} :
         i \in DOMAIN summary.players}

\* The athlete is one whose stat line ingest_game stores: listed once, with
\* an id, having played, with a complete stat line.
Stored(summary, athlete) ==
  /\ athlete.id # ""
  /\ ~athlete.didNotPlay
  /\ Len(athlete.stats) = StatColumns
  /\ Cardinality(Listings(summary, athlete.id)) = 1

\* The rows of a game that belong to the player with the given ESPN id.
StatRows(store, game_id, espn_id) ==
  {r \in store.stats :
     /\ r.game_id = game_id
     /\ \E p \in store.players :
          p.player_id = r.player_id /\ p.espn_player_id = espn_id}

\* C27: after a successful ingest_game, the stat row of each athlete of the
\* home team's boxscore group has team_id = home_team_id and the row of each
\* athlete of the away team's group has team_id = away_team_id.
C27_RowsUnderOwnTeam ==
  (last.fn = "ingest_game" /\ last.ret[1]) =>
    LET event == last.events[1]
        summary == event.summary
    IN \A i \in DOMAIN summary.players :
         LET group == summary.players[i]
         IN group.abbreviation \in {event.home, event.away} =>
              \A j \in DOMAIN group.athletes :
                Stored(summary, group.athletes[j]) =>
                  \A r \in StatRows(db, event.id, group.athletes[j].id) :
                    r.team_id = TeamTable[group.abbreviation]

\* No two rows of a table share the table's key.
UniqueKeys(store) ==
  /\ \A g, h \in store.games : g.game_id = h.game_id => g = h
  /\ \A r, q \in store.stats :
       (r.game_id = q.game_id /\ r.player_id = q.player_id) => r = q

\* C28: the store never holds two Game rows of one game_id nor two
\* PlayerGameStats rows of one (game_id, player_id); a successful ingest_game
\* of a stored game adds no Game row, sets the scores and the status of the
\* stored one, keeps every stored stat row, and leaves each stored athlete's
\* row with the points of the summary.
C28_IngestionIsUpsert ==
  /\ [](UniqueKeys(db))
  /\ [][(/\ last'.fn = "ingest_game"
         /\ last'.ret[1]
         /\ \E g \in db.games : g.game_id = last'.events[1].id) =>
          LET event == last'.events[1]
              summary == event.summary
          IN /\ {g.id : g \in db'.games} = {g.id : g \in db.games}
             /\ \A g \in db'.games :
                  g.game_id = event.id =>
                    /\ g.home_score = event.home_score
                    /\ g.away_score = event.away_score
                    /\ g.game_status = "Final"
             /\ \A r \in db.stats :
                  \E q \in db'.stats :
                    /\ q.id = r.id
                    /\ q.game_id = r.game_id
                    /\ q.player_id = r.player_id
             /\ \A i \in DOMAIN summary.players :
                  \A j \in DOMAIN summary.players[i].athletes :
                    LET athlete == summary.players[i].athletes[j]
                    IN Stored(summary, athlete) =>
                         \A q \in StatRows(db', event.id, athlete.id) :
                           q.points = athlete.stats[PointsIndex + 1]]_vars

\* Game 401 ingested a second time with another score and other points:
\* still one Game row and one row per player, holding the new values.
C28_Witness ==
  /\ last.fn = "ingest_game"
  /\ last.ret = <<TRUE, 2>>
  /\ ncalls = 2
  /\ last.events[1].id = "401"
  /\ last.events[1].home_score = 101
  /\ Cardinality(db.games) = 1
  /\ \A g \in db.games : g.home_score = 101
  /\ Cardinality(db.stats) = 2
  /\ {r.points : r \in db.stats} = {20, 21}
  /\ {r.id : r \in db.stats} = {4, 5}

\* C29: every entry espn_id -> player_id of espn_to_db_cache refers to a
\* Player row of the database with that player_id and that espn_player_id.
C29_CacheAgreesWithDatabase ==
  \A k \in DOMAIN cache :
    \E p \in db.players : p.player_id = cache[k] /\ p.espn_player_id = k

\* The rows of team_odds of one game, team and bookmaker.
OddsOf(game_id, team_id, bookmaker) ==
  {r \in odds.rows : /\ r.game_id = game_id
                     /\ r.team_id = team_id
                     /\ r.bookmaker = bookmaker}

\* C30: after ingest_game_odds, team_odds holds at most one row per
\* (game_id, team_id, bookmaker), and for each bookmaker of a processed
\* event whose totals market has an Over and an Under outcome that row has
\* over_odds and under_odds set.
C30_OneRecordPerBookmaker ==
  offered.fn = "ingest_game_odds" =>
    /\ \A r, q \in odds.rows :
         (/\ r.game_id = q.game_id
          /\ r.team_id = q.team_id
          /\ r.bookmaker = q.bookmaker) => r = q
    /\ \A i \in DOMAIN offered.events :
         LET event == offered.events[i]
             game == _find_game_by_teams_and_date(event.home_team,
                                                  event.away_team)
         IN (event.id # "" /\ game # NoGame) =>
              \A b \in DOMAIN event.bookmakers :
                \A m \in DOMAIN event.bookmakers[b].markets :
                  LET market == event.bookmakers[b].markets[m]
                      names == {market.outcomes[o].name :
                                  o \in DOMAIN market.outcomes}
                      records == OddsOf(game.game_id, game.home_team_id,
                                        event.bookmakers[b].key)
                  IN (market.key = "totals" /\ {"Over", "Under"} \subseteq names)
                       => /\ records # {}
                          /\ \A r \in records :
                               r.over_odds # Null /\ r.under_odds # Null

====
